---- MODULE Spec2Model ----
(***************************************************************************)
(* Model of the chrono-patient-uploader batch pipeline.                    *)
(*                                                                         *)
(*   Spec       a batch run of process_directory (src/processor.py) over   *)
(*              a directory, with its workers, the join and the report     *)
(*   SpecDist   the sort and the round-robin distribution of               *)
(*              process_directory applied to bounded listings              *)
(*   SpecRetry  one call of _request_with_retry (src/api.py) against a     *)
(*              remote that answers each request as it likes               *)
(***************************************************************************)
EXTENDS Integers, Sequences, FiniteSets, Bags, TLC

\* ---------------------------------------------------------------- bounds
MaxFiles == 3
MaxWorkers == 3
MaxDistFiles == 5
MaxDistWorkers == 3
MaxCandidates == 3
MaxCallers == 2
MaxCalls == 3
MaxRuns == 2
MaxDocs == 2
MaxPieces == 3
MaxDatePieces == 3
MaxNamePieces == 3
MaxPages == 2
MaxPageCalls == 2

\* -------------------------------------------------------- program constants
MAX_RETRIES == 3
BACKOFF_BASE == 2
BACKOFF_MAX == 30
APP_LIMIT_THRESHOLD == 60

VARIABLES
    \* --- the batch run (process_directory and its workers)
    srcDir,             \* names of the files in the source directory
    destDir,            \* names of the files in the destination directory
    kind,               \* per file name: what parse_filename makes of the name
    remote,             \* how the remote answers lookup / duplicate check / upload
    dry_run,
    dest_dir,           \* TRUE when a destination directory is configured
    num_workers,
    mainPc,             \* position of process_directory
    files,              \* the sorted listing
    chunks,             \* worker index -> its list of files
    wpc,                \* worker index -> position of _worker_task
    wfiles,             \* worker index -> file_paths argument
    widx,               \* worker index -> number of files already processed
    wslept,             \* worker index -> inter-file sleep done for the next file
    wresults,           \* worker index -> results list
    jitterSleeps,       \* worker index -> number of start jitter sleeps
    interSleeps,        \* worker index -> number of inter-file sleeps
    collected,          \* workers whose future the as_completed loop has consumed
    all_results,
    succeeded,
    failed_files,
    skipped_files,
    duplicate_files,
    rate_limited_files,
    printed,            \* the numeric summary, once printed
    calls,              \* per file name: the stages run for it, with outcomes
    \* --- the distribution alone
    dListing,
    dWorkers,
    dFiles,
    dChunks,
    dPc,
    \* --- one call of _request_with_retry
    rPc,
    rAttempt,
    rResponses,         \* responses received so far, in order
    rWait,              \* the wait computed for the pending sleep, in milliseconds
    rSleeps,            \* waits slept so far, in milliseconds, in order
    rReturned,          \* the response handed to the caller
    rError,             \* the exception raised to the caller
    \* --- one call of find_patient past the cache: the narrowing of the answer
    lQuery,             \* last_name, first_name, middle_initial, dob
    lData,              \* the candidate list of the server's answer
    lResult,
    lPc,
    \* --- the cached operations of src/api.py called by several threads
    cRun,               \* number of the process_directory run in this process
    _patient_cache,
    _documents_cache,
    cPending,           \* the calls between their cache test and their setdefault (a bag)
    cLog,               \* the calls that have ended, in the order of their last locked section
    \* --- one call of is_duplicate past get_patient_documents
    kDocs,              \* `existing`, the patient's document list
    kQuery,             \* date, description, metatag
    kResult,
    kPc,
    \* --- one call of upload_document (it drives the retry loop above)
    uPc,
    uResult,            \* the UploadResult returned
    uError,             \* the exception that left upload_document
    \* --- one call of compile_pattern
    tPattern,           \* the template, a sequence of characters
    tResult,            \* the parts of the regex, or the error raised
    tPc,
    \* --- one call of parse_date_mmddyy
    mText,              \* date_str, a sequence of characters
    mResult,
    mPc,
    \* --- one call of parse_filename with a compiled pattern
    fPattern,           \* the template the pattern was compiled from
    fMetatags,          \* the tag map, in the order of its entries
    fValues,            \* the field values the file name was written from, if any
    fFilename,
    fResult,
    fPc,
    \* --- the remote side of one run of duplicate checks and uploads
    sDocuments,         \* patient id -> the documents the server holds
    \* --- get_patient_documents page by page, called by several threads
    gServer,            \* patient id -> the pages the server answers with
    gCalls              \* caller -> position, patient, next url, documents so far

batchVars == <<srcDir, destDir, kind, remote, dry_run, dest_dir, num_workers,
               mainPc, files, chunks, wpc, wfiles, widx, wslept, wresults,
               jitterSleeps, interSleeps, collected, all_results,
               succeeded, failed_files, skipped_files, duplicate_files,
               rate_limited_files, printed, calls>>
distVars == <<dListing, dWorkers, dFiles, dChunks, dPc>>
retryVars == <<rPc, rAttempt, rResponses, rWait, rSleeps, rReturned, rError>>
lookupVars == <<lQuery, lData, lResult, lPc>>
cacheVars == <<cRun, _patient_cache, _documents_cache, cPending, cLog>>
dupVars == <<kDocs, kQuery, kResult, kPc>>
uploadVars == <<uPc, uResult, uError>>
compileVars == <<tPattern, tResult, tPc>>
dateVars == <<mText, mResult, mPc>>
sessionVars == <<sDocuments>>
pageVars == <<gServer, gCalls>>
fileVars == <<fPattern, fMetatags, fValues, fFilename, fResult, fPc>>
restVars == <<dateVars, fileVars, sessionVars, pageVars>>
clientVars == <<lookupVars, cacheVars, dupVars, uploadVars, compileVars,
                restVars>>
vars == <<batchVars, distVars, retryVars, clientVars>>

None == [none |-> TRUE]
NoneStr == "None"

\* ------------------------------------------------------------ sequences
Range(s) == {s[i] : i \in 1..Len(s)}

\* every order in which iterdir may list the names of S
Listings(S) ==
    {s \in [1..Cardinality(S) -> S] : Range(s) = S}

RECURSIVE Insert(_, _)
Insert(x, s) ==
    IF s = <<>> THEN <<x>>
    ELSE IF x <= Head(s) THEN <<x>> \o s
    ELSE <<Head(s)>> \o Insert(x, Tail(s))

RECURSIVE sorted(_)
sorted(s) ==
    IF s = <<>> THEN <<>> ELSE Insert(Head(s), sorted(Tail(s)))

\* ------------------------------------------------- src/types.py, src/parser.py
\* the fields ParsedFilename declares
ParsedFilenameFields ==
    {"last_name", "first_name", "middle_initial", "tag_code", "tag_full",
     "date", "description"}

\* ParsedFilename(**kwargs): a pydantic model keeps its declared fields and
\* silently drops every keyword it does not declare
ParsedFilename(kwargs) ==
    [k \in (DOMAIN kwargs) \cap ParsedFilenameFields |-> kwargs[k]]

\* attribute read on a model instance: present only for kept fields
HasAttr(obj, name) == name \in DOMAIN obj

FileKinds == {"unparsable", "parsable"}

\* parse_filename at the level of the batch run: None when the name does not
\* match, otherwise the record built by the return statement
parse_filename(k) ==
    IF k = "unparsable" THEN None
    ELSE ParsedFilename(
           [last_name |-> "DOE", first_name |-> "JANE",
            middle_initial |-> NoneStr, dob |-> NoneStr,
            tag_code |-> "R", tag_full |-> "radiology",
            date |-> "2026-02-03", description |-> "CXR"])

\* ------------------------------------------------------- src/processor.py
LookupOutcomes == {"found", "not_found", "multiple_matches", "rate_limit", "request_exception"}
DuplicateOutcomes == {"true", "false", "rate_limit", "request_exception"}
UploadOutcomes == {"success", "failed", "rate_limit", "request_exception"}

\* the behaviours of the remote that lead to different paths of
\* _process_single_file; a stage that the path does not reach is "unused"
RemoteBehaviours ==
    {[lookup |-> l, dup |-> "unused", upload |-> "unused"] :
        l \in LookupOutcomes \ {"found"}}
    \cup {[lookup |-> "found", dup |-> d, upload |-> "unused"] :
        d \in DuplicateOutcomes \ {"false"}}
    \cup {[lookup |-> "found", dup |-> "false", upload |-> u] :
        u \in UploadOutcomes}

_FileResult(filename, succ, reason, detail, category) ==
    [filename |-> filename, succeeded |-> succ, reason |-> reason,
     detail |-> detail, category |-> category]

Stage(name, outcome) == [stage |-> name, outcome |-> outcome]

Returns(res, trace, moved) ==
    [raised |-> FALSE, exc |-> "none", result |-> res, calls |-> trace,
     moved |-> moved]
Raises(exc, trace) ==
    [raised |-> TRUE, exc |-> exc, result |-> None, calls |-> trace,
     moved |-> FALSE]

\* _process_single_file from the first print of the parsed fields on: the
\* result or the escaping exception, the stages run and whether the file moved
ProcessParsed(filename, parsed, rem, dry, dest) ==
    LET t1 == <<Stage("parse", "ok")>>
        t2 == Append(t1, Stage("find_patient", rem.lookup))
        t3 == Append(t2, Stage("is_duplicate", rem.dup))
        t4 == Append(t3, Stage("upload_document", rem.upload))
        t5 == Append(t4, Stage("move", "moved"))
    IN
    IF ~HasAttr(parsed, "dob")
    THEN Raises("AttributeError", t1)                   \* `if parsed.dob:`
    ELSE IF rem.lookup = "rate_limit"
    THEN Returns(_FileResult(filename, FALSE, "rate_limited", "str(exc)",
                             "failed"), t2, FALSE)
    ELSE IF rem.lookup = "request_exception"
    THEN Returns(_FileResult(filename, FALSE, "upload_failed",
                             "patient lookup failed: str(exc)", "failed"),
                 t2, FALSE)
    ELSE IF rem.lookup = "not_found"
    THEN Returns(_FileResult(filename, FALSE, "patient_not_found",
                             "lookup.detail", "failed"), t2, FALSE)
    ELSE IF rem.lookup # "found"
    THEN Returns(_FileResult(filename, FALSE, "patient_multiple_matches",
                             "lookup.detail", "failed"), t2, FALSE)
    ELSE IF rem.dup = "rate_limit"
    THEN Returns(_FileResult(filename, FALSE, "rate_limited", "str(exc)",
                             "failed"), t3, FALSE)
    ELSE IF rem.dup = "request_exception"
    THEN Returns(_FileResult(filename, FALSE, "upload_failed",
                             "duplicate check failed: str(exc)", "failed"),
                 t3, FALSE)
    ELSE IF rem.dup = "true"
    THEN Returns(_FileResult(filename, FALSE, "duplicate",
                             "patient, date, description", "duplicate"),
                 t3, FALSE)
    ELSE IF dry
    THEN Returns(_FileResult(filename, TRUE, "none", NoneStr, "failed"), t3, FALSE)
    ELSE IF rem.upload = "rate_limit"
    THEN Returns(_FileResult(filename, FALSE, "rate_limited", "str(exc)",
                             "failed"), t4, FALSE)
    ELSE IF rem.upload = "request_exception"
    THEN Raises("RequestException", t4)                 \* only RateLimitError is caught
    ELSE IF rem.upload = "success"
    THEN IF dest
         THEN Returns(_FileResult(filename, TRUE, "none", NoneStr, "failed"), t5, TRUE)
         ELSE Returns(_FileResult(filename, TRUE, "none", NoneStr, "failed"), t4, FALSE)
    ELSE Returns(_FileResult(filename, FALSE, "upload_failed", "result.detail",
                             "failed"), t4, FALSE)

\* mutant: the lookup is issued before the parse result is tested
ProcessSingleFile_LookupBeforeParseCheck(filename, k, rem, dry, dest) ==
    LET parsed == parse_filename(k) IN
    IF parsed = None
    THEN Returns(_FileResult(filename, FALSE, "parse_failed", NoneStr, "skipped"),
                 <<Stage("parse", "none"), Stage("find_patient", rem.lookup)>>,
                 FALSE)
    ELSE ProcessParsed(filename, parsed, rem, dry, dest)

\* mutant: every file that yields a result is moved when a destination is set
ProcessSingleFile_MoveAlways(filename, k, rem, dry, dest) ==
    LET parsed == parse_filename(k) IN
    IF parsed = None
    THEN Returns(_FileResult(filename, FALSE, "parse_failed", NoneStr, "skipped"),
                 <<Stage("parse", "none")>>, dest)
    ELSE ProcessParsed(filename, parsed, rem, dry, dest)

\* _process_single_file: parse, then the rest
_process_single_file(filename, k, rem, dry, dest) ==
    LET parsed == parse_filename(k) IN
    IF parsed = None
    THEN Returns(_FileResult(filename, FALSE, "parse_failed", NoneStr, "skipped"),
                 <<Stage("parse", "none")>>, FALSE)
    ELSE ProcessParsed(filename, parsed, rem, dry, dest)

\* mutant: worker numbering shifted by one
RECURSIVE RoundRobinFrom_Shifted(_, _, _, _)
RoundRobinFrom_Shifted(fs, n, i, ch) ==
    IF i >= Len(fs) THEN ch
    ELSE RoundRobinFrom_Shifted(fs, n, i + 1,
             [ch EXCEPT ![(i + 1) % n] = Append(@, fs[i + 1])])

\* mutant: the chunk is overwritten instead of appended to
RECURSIVE RoundRobinFrom_Overwrite(_, _, _, _)
RoundRobinFrom_Overwrite(fs, n, i, ch) ==
    IF i >= Len(fs) THEN ch
    ELSE RoundRobinFrom_Overwrite(fs, n, i + 1,
             [ch EXCEPT ![i % n] = <<fs[i + 1]>>])

\* the loop `for i, f in enumerate(files): chunks[i % num_workers].append(f)`
RECURSIVE RoundRobinFrom(_, _, _, _)
RoundRobinFrom(fs, n, i, ch) ==
    IF i >= Len(fs) THEN ch
    ELSE RoundRobinFrom(fs, n, i + 1, [ch EXCEPT ![i % n] = Append(@, fs[i + 1])])

RoundRobin(fs, n) == RoundRobinFrom(fs, n, 0, [w \in 0..(n - 1) |-> <<>>])

\* the classification loop over all_results
NoCounts ==
    [succeeded |-> 0, failed |-> <<>>, skipped |-> <<>>, duplicate |-> <<>>,
     rate_limited |-> <<>>]

\* mutant: a rate-limited file is counted as failed as well, a skipped one
\* not at all
ClassifyOne_RateLimitedTwice(acc, r) ==
    IF r.succeeded THEN [acc EXCEPT !.succeeded = @ + 1]
    ELSE IF r.category = "skipped" THEN acc
    ELSE IF r.category = "duplicate" THEN [acc EXCEPT !.duplicate = Append(@, r.filename)]
    ELSE IF r.reason = "rate_limited"
    THEN [acc EXCEPT !.rate_limited = Append(@, r.filename),
                     !.failed = Append(@, r.filename)]
    ELSE [acc EXCEPT !.failed = Append(@, r.filename)]

ClassifyOne(acc, r) ==
    IF r.succeeded THEN [acc EXCEPT !.succeeded = @ + 1]
    ELSE IF r.reason = "none" THEN acc
    ELSE IF r.category = "skipped" THEN [acc EXCEPT !.skipped = Append(@, r.filename)]
    ELSE IF r.category = "duplicate" THEN [acc EXCEPT !.duplicate = Append(@, r.filename)]
    ELSE IF r.reason = "rate_limited" THEN [acc EXCEPT !.rate_limited = Append(@, r.filename)]
    ELSE [acc EXCEPT !.failed = Append(@, r.filename)]

RECURSIVE Classify(_, _)
Classify(acc, rs) ==
    IF rs = <<>> THEN acc ELSE Classify(ClassifyOne(acc, Head(rs)), Tail(rs))

Workers == 0..(MaxWorkers - 1)
Submitted == {w \in Workers : wpc[w] # "unused"}
Finished(w) == wpc[w] \in {"returned", "raised"}

NoSummary == [printed |-> FALSE]

\* mutant: the loop over the futures ends with the first future
AsCompletedExhausted_AfterFirst(consumed) == consumed # {}

\* `for future in as_completed(futures)` ends when every submitted future has
\* been handed over
AsCompletedExhausted(consumed) == consumed = Submitted

\* ---------------------------------------------------- idle values per part
BatchIdle ==
    /\ srcDir = {} /\ destDir = {} /\ kind = <<>>
    /\ remote = [lookup |-> "unused", dup |-> "unused", upload |-> "unused"]
    /\ dry_run = FALSE /\ dest_dir = FALSE /\ num_workers = 1
    /\ mainPc = "idle" /\ files = <<>> /\ chunks = <<>>
    /\ wpc = [w \in Workers |-> "unused"]
    /\ wfiles = [w \in Workers |-> <<>>]
    /\ widx = [w \in Workers |-> 0]
    /\ wslept = [w \in Workers |-> FALSE]
    /\ wresults = [w \in Workers |-> <<>>]
    /\ jitterSleeps = [w \in Workers |-> 0]
    /\ interSleeps = [w \in Workers |-> 0]
    /\ collected = {} /\ all_results = <<>>
    /\ succeeded = 0 /\ failed_files = <<>> /\ skipped_files = <<>>
    /\ duplicate_files = <<>> /\ rate_limited_files = <<>>
    /\ printed = NoSummary /\ calls = <<>>

DistIdle ==
    /\ dListing = <<>> /\ dWorkers = 1 /\ dFiles = <<>> /\ dChunks = <<>>
    /\ dPc = "idle"

RetryIdle ==
    /\ rPc = "idle" /\ rAttempt = 0 /\ rResponses = <<>> /\ rWait = 0
    /\ rSleeps = <<>>
    /\ rReturned = None /\ rError = None

LookupIdle ==
    /\ lQuery = None /\ lData = <<>> /\ lResult = None /\ lPc = "idle"

CacheIdle ==
    /\ cRun = 0 /\ _patient_cache = <<>> /\ _documents_cache = <<>>
    /\ cPending = <<>> /\ cLog = <<>>

DupIdle ==
    /\ kDocs = <<>> /\ kQuery = None /\ kResult = None /\ kPc = "idle"

UploadIdle ==
    /\ uPc = "idle" /\ uResult = None /\ uError = None

CompileIdle ==
    /\ tPattern = <<>> /\ tResult = None /\ tPc = "idle"

DateIdle ==
    /\ mText = <<>> /\ mResult = None /\ mPc = "idle"

SessionIdle == sDocuments = <<>>

FileIdle ==
    /\ fPattern = <<>> /\ fMetatags = <<>> /\ fValues = None
    /\ fFilename = <<>> /\ fResult = None /\ fPc = "idle"

PagesIdle == gServer = <<>> /\ gCalls = <<>>

RestIdle == DateIdle /\ FileIdle /\ SessionIdle /\ PagesIdle

ClientIdle ==
    /\ LookupIdle /\ CacheIdle /\ DupIdle /\ UploadIdle /\ CompileIdle
    /\ RestIdle


\* ------------------------------------------------------------ the batch run
\* the state when process_directory is entered: a directory of up to MaxFiles
\* files named 1..n (the order of the names is the order of the numbers)
Init ==
    /\ \E n \in 0..MaxFiles :
         /\ srcDir = 1..n
         /\ kind \in [1..n -> FileKinds]
         /\ calls = [f \in 1..n |-> <<>>]
    /\ destDir = {}
    /\ remote \in RemoteBehaviours
    /\ dry_run \in BOOLEAN
    /\ dest_dir \in BOOLEAN
    /\ num_workers \in 1..MaxWorkers
    /\ mainPc = "start"
    /\ files = <<>> /\ chunks = <<>>
    /\ wpc = [w \in Workers |-> "unused"]
    /\ wfiles = [w \in Workers |-> <<>>]
    /\ widx = [w \in Workers |-> 0]
    /\ wslept = [w \in Workers |-> FALSE]
    /\ wresults = [w \in Workers |-> <<>>]
    /\ jitterSleeps = [w \in Workers |-> 0]
    /\ interSleeps = [w \in Workers |-> 0]
    /\ collected = {} /\ all_results = <<>>
    /\ succeeded = 0 /\ failed_files = <<>> /\ skipped_files = <<>>
    /\ duplicate_files = <<>> /\ rate_limited_files = <<>>
    /\ printed = NoSummary
    /\ DistIdle /\ RetryIdle /\ ClientIdle

workerVars == <<wpc, wfiles, widx, wslept, wresults, jitterSleeps, interSleeps>>
reportVars == <<succeeded, failed_files, skipped_files, duplicate_files,
                rate_limited_files, printed>>
inputVars == <<kind, remote, dry_run, dest_dir, num_workers>>

\* process_directory up to the start of the workers: list, sort, distribute,
\* then either call _worker_task directly or submit one task per non-empty chunk
ProcessDirectoryStart ==
    /\ mainPc = "start"
    /\ \E listing \in Listings(srcDir) :
         LET fs == sorted(listing)
             ch == RoundRobin(fs, num_workers)
         IN
         IF fs = <<>>
         THEN /\ mainPc' = "no_files"
              /\ UNCHANGED <<files, chunks, wpc, wfiles>>
         ELSE /\ mainPc' = "running"
              /\ files' = fs
              /\ chunks' = ch
              /\ IF num_workers = 1
                 THEN /\ wpc' = [wpc EXCEPT ![0] = "jitter"]
                      /\ wfiles' = [wfiles EXCEPT ![0] = fs]
                 ELSE /\ wpc' = [w \in Workers |->
                                   IF w < num_workers /\ ch[w] # <<>>
                                   THEN "jitter" ELSE "unused"]
                      /\ wfiles' = [w \in Workers |->
                                   IF w < num_workers THEN ch[w] ELSE <<>>]
    /\ UNCHANGED <<srcDir, destDir, inputVars, widx, wslept, wresults,
                   jitterSleeps, interSleeps, collected,
                   all_results, reportVars, calls, distVars, retryVars, clientVars>>

\* _worker_task: the start jitter sleep
WorkerJitter(w) ==
    /\ wpc[w] = "jitter"
    /\ wpc' = [wpc EXCEPT ![w] = "loop"]
    /\ jitterSleeps' = [jitterSleeps EXCEPT ![w] = @ + 1]
    /\ UNCHANGED <<srcDir, destDir, inputVars, mainPc, files, chunks, wfiles,
                   widx, wslept, wresults, interSleeps, collected,
                   all_results, reportVars, calls, distVars, retryVars, clientVars>>

\* mutant: the worker sleeps before its first file as well
SleepsBefore_EveryFile(i, dry) == ~dry

\* `if i > 0 and not dry_run:`
SleepsBefore(i, dry) == i > 0 /\ ~dry

\* _worker_task: the sleep before a file that is not the first, outside dry-run
InterFileSleep(w) ==
    /\ wpc[w] = "loop"
    /\ widx[w] < Len(wfiles[w])
    /\ SleepsBefore(widx[w], dry_run)
    /\ ~wslept[w]
    /\ wslept' = [wslept EXCEPT ![w] = TRUE]
    /\ interSleeps' = [interSleeps EXCEPT ![w] = @ + 1]
    /\ UNCHANGED <<srcDir, destDir, inputVars, mainPc, files, chunks, wpc,
                   wfiles, widx, wresults, jitterSleeps, collected,
                   all_results, reportVars, calls, distVars, retryVars, clientVars>>

\* mutant: the worker walks its list from the end
enumerate_Reversed(file_paths, i) == file_paths[Len(file_paths) - i]

\* `for i, file_path in enumerate(file_paths)`: the file of pass i (from 0)
enumerate(file_paths, i) == file_paths[i + 1]

\* _worker_task: one call of _process_single_file; an exception it raises
\* leaves _worker_task
ProcessFile(w) ==
    /\ wpc[w] = "loop"
    /\ widx[w] < Len(wfiles[w])
    /\ ~SleepsBefore(widx[w], dry_run) \/ wslept[w]
    /\ LET f == enumerate(wfiles[w], widx[w])
           out == _process_single_file(f, kind[f], remote, dry_run, dest_dir)
       IN
       /\ calls' = [calls EXCEPT ![f] = @ \o out.calls]
       /\ IF out.moved
          THEN srcDir' = srcDir \ {f} /\ destDir' = destDir \cup {f}
          ELSE UNCHANGED <<srcDir, destDir>>
       /\ IF out.raised
          THEN /\ wpc' = [wpc EXCEPT ![w] = "raised"]
               /\ UNCHANGED <<widx, wslept, wresults>>
          ELSE /\ wresults' = [wresults EXCEPT ![w] = Append(@, out.result)]
               /\ widx' = [widx EXCEPT ![w] = @ + 1]
               /\ wslept' = [wslept EXCEPT ![w] = FALSE]
               /\ UNCHANGED wpc
    /\ UNCHANGED <<inputVars, mainPc, files, chunks, wfiles, jitterSleeps,
                   interSleeps, collected, all_results, reportVars, distVars,
                   retryVars, clientVars>>

\* _worker_task: return results
WorkerReturn(w) ==
    /\ wpc[w] = "loop"
    /\ widx[w] = Len(wfiles[w])
    /\ wpc' = [wpc EXCEPT ![w] = "returned"]
    /\ UNCHANGED <<srcDir, destDir, inputVars, mainPc, files, chunks, wfiles,
                   widx, wslept, wresults, jitterSleeps, interSleeps, collected,
                   all_results, reportVars, calls, distVars, retryVars, clientVars>>

\* num_workers == 1: the direct call of _worker_task ends, with the results
\* or with the exception, which then leaves process_directory
DirectCallEnds ==
    /\ mainPc = "running" /\ num_workers = 1
    /\ Finished(0)
    /\ IF wpc[0] = "returned"
       THEN mainPc' = "aggregate" /\ all_results' = wresults[0]
       ELSE mainPc' = "aborted" /\ UNCHANGED all_results
    /\ UNCHANGED <<srcDir, destDir, inputVars, files, chunks, workerVars,
                   collected, reportVars, calls, distVars, retryVars, clientVars>>

\* num_workers > 1: one iteration of `for future in as_completed(futures)`:
\* as_completed hands over any future that is finished and not yet consumed;
\* future.result() re-raises the exception of a worker that raised
CollectFuture ==
    /\ mainPc = "running" /\ num_workers > 1
    /\ \E w \in Submitted \ collected :
         /\ Finished(w)
         /\ collected' = collected \cup {w}
         /\ IF wpc[w] = "returned"
            THEN /\ all_results' = all_results \o wresults[w]
                 /\ mainPc' = IF AsCompletedExhausted(collected \cup {w})
                              THEN "aggregate" ELSE "running"
            ELSE /\ mainPc' = "unwinding"
                 /\ UNCHANGED all_results
    /\ UNCHANGED <<srcDir, destDir, inputVars, files, chunks, workerVars,
                   reportVars, calls, distVars, retryVars, clientVars>>

\* the executor's __exit__ waits for every worker, then the exception leaves
\* process_directory
ExecutorShutdown ==
    /\ mainPc = "unwinding"
    /\ \A w \in Submitted : Finished(w)
    /\ mainPc' = "aborted"
    /\ UNCHANGED <<srcDir, destDir, inputVars, files, chunks, workerVars,
                   collected, all_results, reportVars, calls, distVars,
                   retryVars, clientVars>>

\* the classification loop over all_results
Aggregate ==
    /\ mainPc = "aggregate"
    /\ LET c == Classify(NoCounts, all_results) IN
       /\ succeeded' = c.succeeded
       /\ failed_files' = c.failed
       /\ skipped_files' = c.skipped
       /\ duplicate_files' = c.duplicate
       /\ rate_limited_files' = c.rate_limited
    /\ mainPc' = "report"
    /\ UNCHANGED <<srcDir, destDir, inputVars, files, chunks, workerVars,
                   collected, all_results, printed, calls, distVars, retryVars, clientVars>>

\* the category reports and the numeric summary
PrintSummary ==
    /\ mainPc = "report"
    /\ printed' = [printed |-> TRUE,
                   uploaded |-> succeeded,
                   failed |-> Len(failed_files),
                   skipped |-> Len(skipped_files),
                   duplicates |-> Len(duplicate_files),
                   rate_limited |-> Len(rate_limited_files),
                   total |-> Len(files)]
    /\ mainPc' = "done"
    /\ UNCHANGED <<srcDir, destDir, inputVars, files, chunks, workerVars,
                   collected, all_results, succeeded, failed_files,
                   skipped_files, duplicate_files, rate_limited_files, calls,
                   distVars, retryVars, clientVars>>

Next ==
    \/ ProcessDirectoryStart
    \/ \E w \in Workers : WorkerJitter(w)
    \/ \E w \in Workers : InterFileSleep(w)
    \/ \E w \in Workers : ProcessFile(w)
    \/ \E w \in Workers : WorkerReturn(w)
    \/ DirectCallEnds
    \/ CollectFuture
    \/ ExecutorShutdown
    \/ Aggregate
    \/ PrintSummary

Spec == Init /\ [][Next]_vars

\* one worker thread's steps: its sleeps end, and every call it makes returns
WorkerStep(w) ==
    \/ WorkerJitter(w)
    \/ InterFileSleep(w)
    \/ ProcessFile(w)
    \/ WorkerReturn(w)

\* the steps of the thread that called process_directory
MainStep ==
    \/ ProcessDirectoryStart
    \/ DirectCallEnds
    \/ CollectFuture
    \/ ExecutorShutdown
    \/ Aggregate
    \/ PrintSummary

\* the batch run with threads that are scheduled fairly: a thread that can
\* take a step takes one (sleeps are finite, every request returns)
Fairness ==
    /\ WF_vars(MainStep)
    /\ \A w \in Workers : WF_vars(WorkerStep(w))

SpecFair == Init /\ [][Next]_vars /\ Fairness

\* ------------------------------------------------- the distribution alone
\* a directory holding any of the names 1..MaxDistFiles, listed in any order
InitDist ==
    /\ \E S \in SUBSET (1..MaxDistFiles) : dListing \in Listings(S)
    /\ dWorkers \in 1..MaxDistWorkers
    /\ dFiles = <<>> /\ dChunks = <<>>
    /\ dPc = "listed"
    /\ BatchIdle /\ RetryIdle /\ ClientIdle

\* files = sorted(...)
DistSort ==
    /\ dPc = "listed"
    /\ dFiles' = sorted(dListing)
    /\ dPc' = "sorted"
    /\ UNCHANGED <<dListing, dWorkers, dChunks, batchVars, retryVars, clientVars>>

\* chunks = [[] ...]; for i, f in enumerate(files): chunks[i % n].append(f)
DistAssign ==
    /\ dPc = "sorted"
    /\ dChunks' = RoundRobin(dFiles, dWorkers)
    /\ dPc' = "distributed"
    /\ UNCHANGED <<dListing, dWorkers, dFiles, batchVars, retryVars, clientVars>>

NextDist ==
    \/ DistSort
    \/ DistAssign

SpecDist == InitDist /\ [][NextDist]_vars

\* ------------------------------------------------ src/api.py, the retry loop
\* header texts are sequences of characters; float() reads them
Digits == <<"0", "1", "2", "3", "4", "5", "6", "7", "8", "9">>
IsDigit(c) == \E d \in 1..10 : Digits[d] = c
DigitValue(c) == (CHOOSE d \in 1..10 : Digits[d] = c) - 1

RECURSIVE DecimalValue(_, _)
DecimalValue(text, acc) ==
    IF text = <<>> THEN acc
    ELSE DecimalValue(Tail(text), acc * 10 + DigitValue(Head(text)))

\* float(text): the number, or ValueError for the empty text and for a text
\* with a character that is no digit
float(text) ==
    IF text # <<>> /\ \A i \in 1..Len(text) : IsDigit(text[i])
    THEN [ok |-> TRUE, value |-> DecimalValue(text, 0)]
    ELSE [ok |-> FALSE, value |-> 0]

\* the Retry-After headers the remote may send with a 429: none, "", "2",
\* "45", "61" and a text that is no number
NoHeader == [present |-> FALSE, text |-> <<>>]
Header(text) == [present |-> TRUE, text |-> text]

RetryAfterSamples ==
    {NoHeader} \cup
    {Header(t) : t \in {<<>>, <<"2">>, <<"4", "5">>, <<"6", "1">>, <<"x">>}}

\* random.uniform(0, 1) in milliseconds
JitterSamples == {0, 999}

\* a response: status, Retry-After header, body text and the `id` of its JSON
ResponseWith(status, retry_after, text, id) ==
    [status |-> status, retry_after |-> retry_after, text |-> text, id |-> id]
Response(status, retry_after) == ResponseWith(status, retry_after, <<>>, None)

Responses ==
    {Response(200, NoHeader), Response(500, NoHeader)}
    \cup {Response(429, h) : h \in RetryAfterSamples}
    \cup {ResponseWith(201, NoHeader, <<"i", "d">>, [some |-> 999]),
          ResponseWith(201, NoHeader, <<>>, None),
          ResponseWith(400, NoHeader, <<"b", "a", "d">>, None)}

RECURSIVE Pow2(_)
Pow2(n) == IF n = 0 THEN 1 ELSE 2 * Pow2(n - 1)

Min(a, b) == IF a <= b THEN a ELSE b

\* mutant: every response that is not a 200 is retried
IsThrottled_Not200(resp) == resp.status # 200

\* `resp.status_code != 429` decides between return and retry
IsThrottled(resp) == resp.status = 429

\* mutant: the backoff does not grow with the attempt
BaseWait_ConstantBackoff(retry_after, attempt) ==
    IF retry_after.present /\ float(retry_after.text).ok
    THEN float(retry_after.text).value
    ELSE BACKOFF_BASE

\* the wait before clamping, in seconds
BaseWait(retry_after, attempt) ==
    IF retry_after.present /\ float(retry_after.text).ok
    THEN float(retry_after.text).value
    ELSE BACKOFF_BASE * Pow2(attempt)

\* mutant: the header value is compared after clamping to BACKOFF_MAX
is_app_limit_Clamped(retry_after) ==
    /\ retry_after.present
    /\ Min(float(retry_after.text).value, BACKOFF_MAX) > APP_LIMIT_THRESHOLD

\* `retry_after is not None and float(retry_after) > 60`, for a header that
\* float() accepts
is_app_limit(retry_after) ==
    /\ retry_after.present
    /\ float(retry_after.text).value > APP_LIMIT_THRESHOLD

\* mutant: a 429 flagged as the application limit ends the call at once
GivesUp_OnAppLimit(attempt, retry_after) ==
    attempt = MAX_RETRIES \/ is_app_limit(retry_after)

\* `if attempt == MAX_RETRIES:` the call raises after the 429 of the last
\* attempt only, whatever the header of the 429 says
GivesUp(attempt, retry_after) == attempt = MAX_RETRIES

RateLimitError(retry_after, app_limit) ==
    [type |-> "RateLimitError", retry_after |-> retry_after,
     is_app_limit |-> app_limit]

InitRetry ==
    /\ rPc = "request" /\ rAttempt = 0 /\ rResponses = <<>> /\ rWait = 0
    /\ rSleeps = <<>> /\ rReturned = None /\ rError = None
    /\ BatchIdle /\ DistIdle /\ ClientIdle

\* one pass of the loop body up to the sleep: send the request (an exception
\* of requests.request leaves the call), return a
\* response that is not a 429, otherwise compute the wait and the app-limit
\* flag and raise on the last attempt
SendRequest ==
    /\ rPc = "request"
    /\ \/ \* requests.request raises (connection error, timeout)
          /\ rPc' = "raised"
          /\ rError' = [type |-> "ConnectionError"]
          /\ UNCHANGED <<rResponses, rWait, rReturned>>
       \/ \E resp \in Responses, jitter \in JitterSamples :
            /\ rResponses' = Append(rResponses, resp)
            /\ IF ~IsThrottled(resp)
               THEN /\ rPc' = "returned"
                    /\ rReturned' = resp
                    /\ UNCHANGED <<rWait, rError>>
               ELSE LET h == resp.retry_after
                        wait == Min(BaseWait(h, rAttempt), BACKOFF_MAX) * 1000 + jitter
                    IN
                    IF h.present /\ ~float(h.text).ok
                    THEN \* float(retry_after) of the app-limit test raises
                         /\ rPc' = "raised"
                         /\ rError' = [type |-> "ValueError"]
                         /\ UNCHANGED <<rWait, rReturned>>
                    ELSE IF GivesUp(rAttempt, h)
                         THEN /\ rPc' = "raised"
                              /\ rError' = RateLimitError(
                                     IF h.present /\ h.text # <<>>
                                     THEN [some |-> float(h.text).value] ELSE None,
                                     is_app_limit(h))
                              /\ UNCHANGED <<rWait, rReturned>>
                         ELSE /\ rPc' = "sleep"
                              /\ rWait' = wait
                              /\ UNCHANGED <<rReturned, rError>>
    /\ UNCHANGED <<rAttempt, rSleeps, batchVars, distVars, clientVars>>

\* time.sleep(wait), then the next attempt
Sleep ==
    /\ rPc = "sleep"
    /\ rSleeps' = Append(rSleeps, rWait)
    /\ rWait' = 0
    /\ rAttempt' = rAttempt + 1
    /\ rPc' = "request"
    /\ UNCHANGED <<rResponses, rReturned, rError, batchVars, distVars, clientVars>>

NextRetry ==
    \/ SendRequest
    \/ Sleep

SpecRetry == InitRetry /\ [][NextRetry]_vars

\* ------------------------------------------------- src/api.py, find_patient
\* texts are sequences of characters; an optional text is None or a text
NoText == [present |-> FALSE, text |-> <<>>]
Text(t) == [present |-> TRUE, text |-> t]
\* `x or ''`
OrEmpty(o) == IF o.present THEN o.text ELSE <<>>
\* the truth value of an optional text: None and '' are false
Truthy(o) == o.present /\ o.text # <<>>

LowerLetters == <<"a", "b", "m", "h", "p", "r">>
UpperLetters == <<"A", "B", "M", "H", "P", "R">>

upperChar(c) ==
    IF \E k \in 1..Len(LowerLetters) : LowerLetters[k] = c
    THEN UpperLetters[CHOOSE k \in 1..Len(LowerLetters) : LowerLetters[k] = c]
    ELSE c
lowerChar(c) ==
    IF \E k \in 1..Len(UpperLetters) : UpperLetters[k] = c
    THEN LowerLetters[CHOOSE k \in 1..Len(UpperLetters) : UpperLetters[k] = c]
    ELSE c

\* str.upper(), str.lower(), str.startswith()
upper(t) == [i \in 1..Len(t) |-> upperChar(t[i])]
lower(t) == [i \in 1..Len(t) |-> lowerChar(t[i])]
startswith(t, prefix) ==
    Len(prefix) <= Len(t) /\ SubSeq(t, 1, Len(prefix)) = prefix

D1990 == <<"1", "9", "9", "0", "-", "0", "1", "-", "0", "1">>
D1985 == <<"1", "9", "8", "5", "-", "0", "5", "-", "0", "5">>
D2000 == <<"2", "0", "0", "0", "-", "1", "2", "-", "2", "5">>

\* one entry of the `results` list of GET /api/patients
Patient(id, doctor, last, first, middle, dob) ==
    [id |-> id, doctor |-> doctor, last_name |-> last, first_name |-> first,
     middle_name |-> middle, date_of_birth |-> dob]

\* the patients the server knows: namesakes that differ in middle name and
\* date of birth, a longer last name, a longer first name, and one stored in
\* lower case without middle name, date of birth and doctor
PatientPool ==
    {Patient(1, [some |-> 5], <<"A">>, <<"B">>, Text(<<"M", "a">>), Text(D1990)),
     Patient(2, [some |-> 6], <<"A">>, <<"B">>, Text(<<"M", "b">>), Text(D1985)),
     Patient(3, [some |-> 7], <<"A">>, <<"B">>, Text(<<"B", "a">>), Text(D1990)),
     Patient(4, [some |-> 8], <<"A", "B">>, <<"B">>, NoText, Text(D1985)),
     Patient(5, [some |-> 9], <<"A">>, <<"B", "A">>, Text(<<"m">>), Text(D2000)),
     Patient(6, None, <<"a">>, <<"b">>, NoText, NoText)}

\* the answers the server may give: lists of distinct patients
PatientLists(maxLen) ==
    UNION {{l \in [1..n -> PatientPool] :
               \A i, j \in 1..n : i # j => l[i].id # l[j].id} : n \in 0..maxLen}

PatientLookupResult(status, patient_id, doctor_id, detail) ==
    [status |-> status, patient_id |-> patient_id, doctor_id |-> doctor_id,
     detail |-> detail]

\* mutant: the middle-initial filter is kept even when it leaves nobody
NarrowByMiddle_KeepEmpty(results, middle_initial) ==
    IF Truthy(middle_initial) /\ Len(results) > 1
    THEN LET Test(p) == startswith(upper(OrEmpty(p.middle_name)),
                                   upper(middle_initial.text))
         IN SelectSeq(results, Test)
    ELSE results

\* `if middle_initial and len(results) > 1: ...`
NarrowByMiddle(results, middle_initial) ==
    IF Truthy(middle_initial) /\ Len(results) > 1
    THEN LET Test(p) == startswith(upper(OrEmpty(p.middle_name)),
                                   upper(middle_initial.text))
             filtered == SelectSeq(results, Test)
         IN IF filtered # <<>> THEN filtered ELSE results
    ELSE results

\* `if len(results) > 1: exact = ...`
NarrowByExactName(results, last_name, first_name) ==
    IF Len(results) > 1
    THEN LET Test(p) == /\ upper(p.last_name) = upper(last_name)
                        /\ upper(p.first_name) = upper(first_name)
             exact == SelectSeq(results, Test)
         IN IF Len(exact) >= 1 THEN exact ELSE results
    ELSE results

\* `if dob and len(results) > 1: ...`
NarrowByDob(results, dob) ==
    IF Truthy(dob) /\ Len(results) > 1
    THEN LET Test(p) == p.date_of_birth = dob
             dob_filtered == SelectSeq(results, Test)
         IN IF dob_filtered # <<>> THEN dob_filtered ELSE results
    ELSE results

\* the result built from the narrowed list; the detail of MULTIPLE_MATCHES
\* lists every remaining candidate, here by its id
LookupResultOf(results) ==
    IF Len(results) = 0
    THEN PatientLookupResult("not_found", None, None, None)
    ELSE IF Len(results) > 1
    THEN PatientLookupResult("multiple_matches", None, None,
             [names |-> [i \in 1..Len(results) |-> results[i].id]])
    ELSE PatientLookupResult("found", [some |-> results[1].id],
             results[1].doctor, None)

\* find_patient from `results = data.get(...)` to the result
NarrowAndClassify(results, q) ==
    LookupResultOf(
        NarrowByDob(
            NarrowByExactName(
                NarrowByMiddle(results, q.middle_initial),
                q.last_name, q.first_name),
            q.dob))

Query(last, first, middle, dob) ==
    [last_name |-> last, first_name |-> first, middle_initial |-> middle,
     dob |-> dob]

Queries ==
    {Query(l, f, m, d) :
        l \in {<<"A">>, <<"a">>}, f \in {<<"B">>, <<"b">>},
        m \in {NoText, Text(<<"M">>), Text(<<"m">>), Text(<<"Z">>)},
        d \in {NoText, Text(D1990), Text(D1985), Text(<<"1", "9", "7", "0">>)}}

\* a call of find_patient that has received the server's answer
InitLookup ==
    /\ lQuery \in Queries
    /\ lData \in PatientLists(MaxCandidates)
    /\ lResult = None
    /\ lPc = "answered"
    /\ BatchIdle /\ DistIdle /\ RetryIdle /\ CacheIdle
    /\ DupIdle /\ UploadIdle /\ CompileIdle /\ RestIdle

LookupNarrow ==
    /\ lPc = "answered"
    /\ lResult' = NarrowAndClassify(lData, lQuery)
    /\ lPc' = "returned"
    /\ UNCHANGED <<lQuery, lData, batchVars, distVars, retryVars, cacheVars,
                   dupVars, uploadVars, compileVars, restVars>>

NextLookup == LookupNarrow

SpecLookup == InitLookup /\ [][NextLookup]_vars

\* ------------------------------------- src/api.py, the two module-level caches
\* the cache key of find_patient
\* mutant: the names go into the key as given
cache_key_AsGiven(q) ==
    q.last_name \o <<"|">> \o q.first_name \o <<"|">>
        \o OrEmpty(q.middle_initial) \o <<"|">> \o OrEmpty(q.dob)

\* f"{last_name.lower()}|{first_name.lower()}|{(middle_initial or '').lower()}|{dob or ''}"
cache_key(q) ==
    lower(q.last_name) \o <<"|">> \o lower(q.first_name) \o <<"|">>
        \o lower(OrEmpty(q.middle_initial)) \o <<"|">> \o OrEmpty(q.dob)

\* mutant: only a Found result is kept
setdefault_FoundOnly(cache, key, value) ==
    IF key \in DOMAIN cache \/ value.status # "found" THEN cache
    ELSE cache @@ (key :> value)

\* mutant: plain assignment, the last write wins
setdefault_Overwrite(cache, key, value) ==
    [k \in DOMAIN cache \cup {key} |-> IF k = key THEN value ELSE cache[k]]

\* dict.setdefault(key, value)
setdefault(cache, key, value) ==
    IF key \in DOMAIN cache THEN cache ELSE cache @@ (key :> value)

\* the queries of the callers: one patient written in two cases, with another
\* date of birth and without date of birth
CacheQueries ==
    {Query(<<"A">>, <<"B">>, Text(<<"M">>), Text(D1990)),
     Query(<<"a">>, <<"b">>, Text(<<"m">>), Text(D1990)),
     Query(<<"A">>, <<"B">>, Text(<<"M">>), Text(D1985)),
     Query(<<"A">>, <<"B">>, Text(<<"M">>), NoText)}

\* what a request of find_patient may meet: nobody or the two namesakes (or an
\* exception of _request_with_retry or raise_for_status)
LookupAnswers ==
    {<<>>,
     <<Patient(1, [some |-> 5], <<"A">>, <<"B">>, Text(<<"M", "a">>), Text(D1990)),
       Patient(2, [some |-> 6], <<"A">>, <<"B">>, Text(<<"M", "b">>), Text(D1985))>>}

\* the document pages the server may answer with, following `next`
DocumentPages ==
    {<<<<>>>>, <<<<"doc1">>>>, <<<<"doc1">>, <<"doc2">>>>}

RECURSIVE extend(_, _)
\* documents.extend(page) over the pages in order
extend(documents, pages) ==
    IF pages = <<>> THEN documents
    ELSE extend(documents \o Head(pages), Tail(pages))

\* a call between its cache test and its setdefault
Pending(op, arg, since) == [op |-> op, arg |-> arg, since |-> since]
OneCall(c) == SetToBag({c})
Started == Len(cLog) + BagCardinality(cPending)

LogEntry(op, arg, result, raised, requested, since) ==
    [op |-> op, arg |-> arg, result |-> result, raised |-> raised,
     requested |-> requested, since |-> since, run |-> cRun]

\* the module has just been imported: both dictionaries are empty
InitCache ==
    /\ cRun = 1 /\ _patient_cache = <<>> /\ _documents_cache = <<>>
    /\ cPending = EmptyBag
    /\ cLog = <<>>
    /\ BatchIdle /\ DistIdle /\ RetryIdle /\ LookupIdle
    /\ DupIdle /\ UploadIdle /\ CompileIdle /\ RestIdle

\* find_patient up to the cache test, called by a thread that is free: a hit
\* returns the cached result
FindPatientEnter ==
    /\ BagCardinality(cPending) < MaxCallers /\ Started < MaxCalls
    /\ \E q \in CacheQueries :
         IF cache_key(q) \in DOMAIN _patient_cache
         THEN /\ cLog' = Append(cLog, LogEntry("find_patient", q,
                             _patient_cache[cache_key(q)], FALSE, FALSE, Len(cLog)))
              /\ UNCHANGED cPending
         ELSE /\ cPending' =
                     cPending (+) OneCall(Pending("find_patient", q, Len(cLog)))
              /\ UNCHANGED cLog
    /\ UNCHANGED <<cRun, _patient_cache, _documents_cache, batchVars, distVars,
                   retryVars, lookupVars, dupVars, uploadVars, compileVars, restVars>>

\* find_patient after a miss: the request, the narrowing, setdefault, return;
\* an exception of the request leaves the cache as it is
FindPatientFetch ==
    \E c \in BagToSet(cPending) :
        /\ c.op = "find_patient"
        /\ \/ /\ cLog' = Append(cLog, LogEntry("find_patient", c.arg, None, TRUE,
                                              TRUE, c.since))
              /\ UNCHANGED _patient_cache
           \/ \E results \in LookupAnswers :
                LET result == NarrowAndClassify(results, c.arg) IN
                /\ _patient_cache' =
                       setdefault(_patient_cache, cache_key(c.arg), result)
                /\ cLog' = Append(cLog, LogEntry("find_patient", c.arg, result,
                                                FALSE, TRUE, c.since))
        /\ cPending' = cPending (-) OneCall(c)
        /\ UNCHANGED <<cRun, _documents_cache, batchVars, distVars, retryVars,
                       lookupVars, dupVars, uploadVars, compileVars, restVars>>

\* get_patient_documents up to the cache test
GetDocumentsEnter ==
    /\ BagCardinality(cPending) < MaxCallers /\ Started < MaxCalls
    /\ \E patient_id \in {1, 2} :
         IF patient_id \in DOMAIN _documents_cache
         THEN /\ cLog' = Append(cLog, LogEntry("get_patient_documents", patient_id,
                             _documents_cache[patient_id], FALSE, FALSE, Len(cLog)))
              /\ UNCHANGED cPending
         ELSE /\ cPending' = cPending (+)
                     OneCall(Pending("get_patient_documents", patient_id, Len(cLog)))
              /\ UNCHANGED cLog
    /\ UNCHANGED <<cRun, _patient_cache, _documents_cache, batchVars, distVars,
                   retryVars, lookupVars, dupVars, uploadVars, compileVars, restVars>>

\* get_patient_documents after a miss: the page loop, setdefault, return; an
\* exception of a request leaves the cache as it is
GetDocumentsFetch ==
    \E c \in BagToSet(cPending) :
        /\ c.op = "get_patient_documents"
        /\ \/ /\ cLog' = Append(cLog, LogEntry("get_patient_documents", c.arg,
                                              None, TRUE, TRUE, c.since))
              /\ UNCHANGED _documents_cache
           \/ \E pages \in DocumentPages :
                LET documents == extend(<<>>, pages) IN
                /\ _documents_cache' =
                       setdefault(_documents_cache, c.arg, documents)
                /\ cLog' = Append(cLog, LogEntry("get_patient_documents", c.arg,
                                                documents, FALSE, TRUE, c.since))
        /\ cPending' = cPending (-) OneCall(c)
        /\ UNCHANGED <<cRun, _patient_cache, batchVars, distVars, retryVars,
                       lookupVars, dupVars, uploadVars, compileVars, restVars>>

\* process_directory has returned and is called again in the same process (the
\* Upload button of the GUI): nothing between two runs touches the caches
NextRun ==
    /\ cPending = EmptyBag
    /\ cLog # <<>> /\ cLog[Len(cLog)].run = cRun
    /\ cRun < MaxRuns
    /\ cRun' = cRun + 1
    /\ UNCHANGED <<_patient_cache, _documents_cache, cPending, cLog, batchVars,
                   distVars, retryVars, lookupVars, dupVars, uploadVars, compileVars, restVars>>

\* the calls of find_patient of one run
NextCache ==
    \/ FindPatientEnter
    \/ FindPatientFetch

SpecCache == InitCache /\ [][NextCache]_vars

\* the calls of both cached operations over several runs in one process
NextRuns ==
    \/ FindPatientEnter
    \/ FindPatientFetch
    \/ GetDocumentsEnter
    \/ GetDocumentsFetch
    \/ NextRun

SpecRuns == InitCache /\ [][NextRuns]_vars

\* ------------------------------------------------- src/api.py, is_duplicate
\* the `metatags` value of a document as the server may send it
MetaNull == [kind |-> "null"]
MetaStr(text) == [kind |-> "str", text |-> text]
MetaList(items) == [kind |-> "list", items |-> items]

\* the truth value of a metatags value: None, '' and [] are false
MetaTruthy(m) ==
    CASE m.kind = "null" -> FALSE
      [] m.kind = "str" -> m.text # <<>>
      [] m.kind = "list" -> m.items # <<>>

Quote == "\""

\* the index of the first quote of t at or after position i, 0 without one
RECURSIVE FindQuote(_, _)
FindQuote(t, i) ==
    IF i > Len(t) THEN 0
    ELSE IF t[i] = Quote THEN i
    ELSE FindQuote(t, i + 1)

\* json.loads on the elements of an array of strings, from position i on
RECURSIVE json_elements(_, _, _)
json_elements(t, i, acc) ==
    IF i > Len(t) \/ t[i] # Quote THEN [ok |-> FALSE, value |-> <<>>]
    ELSE LET k == FindQuote(t, i + 1) IN
         IF k = 0 \/ k = Len(t) THEN [ok |-> FALSE, value |-> <<>>]
         ELSE LET item == SubSeq(t, i + 1, k - 1) IN
              IF t[k + 1] = "]"
              THEN IF k + 1 = Len(t)
                   THEN [ok |-> TRUE, value |-> Append(acc, item)]
                   ELSE [ok |-> FALSE, value |-> <<>>]
              ELSE IF t[k + 1] = ","
              THEN IF k + 2 <= Len(t) /\ t[k + 2] = " "
                   THEN json_elements(t, k + 3, Append(acc, item))
                   ELSE json_elements(t, k + 2, Append(acc, item))
              ELSE [ok |-> FALSE, value |-> <<>>]

\* json.loads for the texts documents carry here: an array of strings is
\* decoded, the empty text and every other text is a JSONDecodeError
json_loads(t) ==
    IF t = <<>> \/ t[1] # "[" THEN [ok |-> FALSE, value |-> <<>>]
    ELSE IF t = <<"[", "]">> THEN [ok |-> TRUE, value |-> <<>>]
    ELSE json_elements(t, 2, <<>>)

Tags(items) == [raised |-> FALSE, tags |-> items]

\* mutant: json.loads is called without the try/except around it
tags_of_Unguarded(metatags) ==
    LET raw_tags == IF MetaTruthy(metatags) THEN metatags
                    ELSE MetaStr(<<"[", "]">>)
    IN IF raw_tags.kind = "str"
       THEN IF json_loads(raw_tags.text).ok
            THEN Tags(json_loads(raw_tags.text).value)
            ELSE [raised |-> TRUE, tags |-> <<>>]
       ELSE Tags(raw_tags.items)

\* `raw_tags = doc.get("metatags") or "[]"`, then json.loads for a text, with
\* `except (json.JSONDecodeError, TypeError): tags = []`
tags_of(metatags) ==
    LET raw_tags == IF MetaTruthy(metatags) THEN metatags
                    ELSE MetaStr(<<"[", "]">>)
    IN IF raw_tags.kind = "str"
       THEN IF json_loads(raw_tags.text).ok
            THEN Tags(json_loads(raw_tags.text).value)
            ELSE Tags(<<>>)
       ELSE Tags(raw_tags.items)

Document(date, description, metatags) ==
    [date |-> date, description |-> description, metatags |-> metatags]

\* the loop of is_duplicate over `existing`: the value returned, or the
\* exception that leaves the loop
RECURSIVE is_duplicate(_, _, _, _)
is_duplicate(existing, date, description, metatag) ==
    IF existing = <<>> THEN [raised |-> FALSE, value |-> FALSE]
    ELSE LET doc == Head(existing)
             t == tags_of(doc.metatags)
         IN
         IF doc.date # date
         THEN is_duplicate(Tail(existing), date, description, metatag)
         ELSE IF doc.description # description
         THEN is_duplicate(Tail(existing), date, description, metatag)
         ELSE IF t.raised
         THEN [raised |-> TRUE, value |-> FALSE]
         ELSE IF \E i \in 1..Len(t.tags) : t.tags[i] = metatag
         THEN [raised |-> FALSE, value |-> TRUE]
         ELSE is_duplicate(Tail(existing), date, description, metatag)

\* the metatags encodings: JSON texts of one and of two tags (with and without
\* a blank after the comma) and of no tag, native lists, null, the empty
\* text, and texts that are no JSON
MetatagSamples ==
    {MetaNull, MetaStr(<<>>),
     MetaStr(<<"[", "]">>),
     MetaStr(<<"[", Quote, "r", Quote, "]">>),
     MetaStr(<<"[", Quote, "l", Quote, "]">>),
     MetaStr(<<"[", Quote, "l", Quote, ",", " ", Quote, "r", Quote, "]">>),
     MetaStr(<<"[", Quote, "l", Quote, ",", Quote, "r", Quote, "]">>),
     MetaStr(<<"{", "b", "a", "d">>),
     MetaStr(<<"[", Quote, "r", Quote>>),
     MetaStr(<<"r">>),
     MetaList(<<>>), MetaList(<<<<"r">>>>), MetaList(<<<<"l">>, <<"r">>>>)}

DocumentPool ==
    {Document(d, x, m) :
        d \in {"2026-02-03", "2025-01-01"}, x \in {"CXR", "MRI"},
        m \in MetatagSamples}

DocumentLists(maxLen) == UNION {[1..n -> DocumentPool] : n \in 0..maxLen}

\* a call of is_duplicate that has the patient's documents
InitDup ==
    /\ kDocs \in DocumentLists(MaxDocs)
    /\ kQuery \in {[date |-> "2026-02-03", description |-> "CXR", metatag |-> g] :
                      g \in {<<"r">>, <<"l">>}}
    /\ kResult = None
    /\ kPc = "fetched"
    /\ BatchIdle /\ DistIdle /\ RetryIdle /\ LookupIdle /\ CacheIdle
    /\ UploadIdle /\ CompileIdle /\ RestIdle

IsDuplicateScan ==
    /\ kPc = "fetched"
    /\ kResult' = is_duplicate(kDocs, kQuery.date, kQuery.description,
                               kQuery.metatag)
    /\ kPc' = "returned"
    /\ UNCHANGED <<kDocs, kQuery, batchVars, distVars, retryVars, lookupVars,
                   cacheVars, uploadVars, compileVars, restVars>>

NextDup == IsDuplicateScan

SpecDup == InitDup /\ [][NextDup]_vars

\* ---------------------------------------------- src/api.py, upload_document
\* str(n) for a natural number
RECURSIVE str(_)
str(n) ==
    IF n < 10 THEN <<Digits[n + 1]>>
    ELSE str(n \div 10) \o <<Digits[(n % 10) + 1]>>

UploadResult(status, document_id, detail) ==
    [status |-> status, document_id |-> document_id, detail |-> detail]

\* `if resp.status_code == 201: ... else: ...`
upload_result(resp) ==
    IF resp.status = 201
    THEN UploadResult("success", resp.id, None)
    ELSE UploadResult("failed", None,
             [text |-> str(resp.status) \o <<":", " ">> \o resp.text])

\* upload_document has opened the file and enters _request_with_retry
InitUpload ==
    /\ rPc = "request" /\ rAttempt = 0 /\ rResponses = <<>> /\ rWait = 0
    /\ rSleeps = <<>> /\ rReturned = None /\ rError = None
    /\ uPc = "request" /\ uResult = None /\ uError = None
    /\ BatchIdle /\ DistIdle /\ LookupIdle /\ CacheIdle /\ DupIdle /\ CompileIdle /\ RestIdle

\* _request_with_retry has ended: its exception leaves upload_document, its
\* response becomes the UploadResult
UploadReturn ==
    /\ uPc = "request" /\ rPc \in {"returned", "raised"}
    /\ IF rPc = "raised"
       THEN /\ uPc' = "raised" /\ uError' = rError
            /\ UNCHANGED uResult
       ELSE /\ uPc' = "returned" /\ uResult' = upload_result(rReturned)
            /\ UNCHANGED uError
    /\ UNCHANGED <<batchVars, distVars, retryVars, lookupVars, cacheVars,
                   dupVars, compileVars, restVars>>

NextUpload ==
    \/ SendRequest
    \/ Sleep
    \/ UploadReturn

SpecUpload == InitUpload /\ [][NextUpload]_vars

\* ---------------------------------------------- src/parser.py, compile_pattern
\* the placeholder names, as texts
N_name == <<"n", "a", "m", "e">>
N_last_name == <<"l", "a", "s", "t", "_", "n", "a", "m", "e">>
N_first_name == <<"f", "i", "r", "s", "t", "_", "n", "a", "m", "e">>
N_middle_initial == <<"m", "i", "d", "d", "l", "e", "_", "i", "n", "i", "t", "i", "a", "l">>
N_date == <<"d", "a", "t", "e">>
N_dob == <<"d", "o", "b">>
N_tag == <<"t", "a", "g">>
N_description == <<"d", "e", "s", "c", "r", "i", "p", "t", "i", "o", "n">>

\* the keys of `placeholders`: _PLACEHOLDER_REGEX and "tag"
PlaceholderKeys ==
    {N_name, N_last_name, N_first_name, N_middle_initial, N_date, N_dob, N_tag}

\* the named groups of the regex of a placeholder, in order
GroupsOf(name) ==
    IF name = N_name THEN <<N_last_name, N_first_name, N_middle_initial>>
    ELSE <<name>>

\* \w for the characters templates are written with here
NonWordChars == {"{", "}", "(", ")", "-", " ", ".", ","}
IsWordChar(c) == c \notin NonWordChars

\* the index after the run of word characters that starts at i
RECURSIVE WordRunEnd(_, _)
WordRunEnd(p, i) ==
    IF i <= Len(p) /\ IsWordChar(p[i]) THEN WordRunEnd(p, i + 1) ELSE i

\* _PLACEHOLDER_RE matches p[i..j]: `{`, one or more word characters, `}`
MatchEnd(p, i) ==
    LET j == WordRunEnd(p, i + 1) IN
    IF p[i] = "{" /\ j > i + 1 /\ j <= Len(p) /\ p[j] = "}" THEN j ELSE 0

\* finditer: the start of the first match at or after i, 0 without one
RECURSIVE NextMatch(_, _)
NextMatch(p, i) ==
    IF i > Len(p) THEN 0
    ELSE IF MatchEnd(p, i) # 0 THEN i
    ELSE NextMatch(p, i + 1)

Literal(text) == [kind |-> "literal", text |-> text]
Group(name, optional) == [kind |-> "group", name |-> name, optional |-> optional]

CompileError(error, name) == [ok |-> FALSE, error |-> error, name |-> name]
Compiled(parts) == [ok |-> TRUE, parts |-> parts]

\* the group names of the parts, in order
RECURSIVE GroupNames(_)
GroupNames(parts) ==
    IF parts = <<>> THEN <<>>
    ELSE IF Head(parts).kind = "group"
    THEN GroupsOf(Head(parts).name) \o GroupNames(Tail(parts))
    ELSE GroupNames(Tail(parts))

\* re.compile: a group name defined twice is an re.error
re_compile(parts) ==
    LET names == GroupNames(parts) IN
    IF \E i, j \in 1..Len(names) : i < j /\ names[i] = names[j]
    THEN CompileError("re.error", <<>>)
    ELSE Compiled(parts)

\* mutant: the test for {description} after the loop is missing
Finish_NoDescriptionCheck(parts, found_description) ==
    re_compile(parts)

\* `if not found_description: raise ValueError(...)`, then re.compile
Finish(parts, found_description) ==
    IF ~found_description
    THEN CompileError("missing_description", <<>>)
    ELSE re_compile(parts)

\* mutant: a name that is no key is taken as a group of its own
IsPlaceholderKey_AnyWord(name) == TRUE

\* `name in placeholders`
IsPlaceholderKey(name) == name \in PlaceholderKeys

AppendLiteral(parts, text) ==
    IF text = <<>> THEN parts ELSE Append(parts, Literal(text))

\* the loop over the matches from the match search position `from` on, with
\* `pos`, `result_parts` and `found_description` as the loop has left them
\* (positions count from 1)
RECURSIVE CompileFrom(_, _, _, _, _)
CompileFrom(p, from, pos, parts, found_description) ==
    LET i == NextMatch(p, from) IN
    IF i = 0
    THEN Finish(IF pos <= Len(p)
                THEN Append(parts, Literal(SubSeq(p, pos, Len(p))))
                ELSE parts,
                found_description)
    ELSE LET j == MatchEnd(p, i)
             literal_before == SubSeq(p, pos, i - 1)
             name == SubSeq(p, i + 1, j - 1)
             wrapped_in_parens ==
                 /\ literal_before # <<>>
                 /\ literal_before[Len(literal_before)] = "("
                 /\ j + 1 <= Len(p)
                 /\ p[j + 1] = ")"
             before == IF wrapped_in_parens
                       THEN SubSeq(literal_before, 1, Len(literal_before) - 1)
                       ELSE literal_before
         IN
         IF name # N_description /\ ~IsPlaceholderKey(name)
         THEN CompileError("unknown_placeholder", name)
         ELSE CompileFrom(p, j + 1,
                  IF wrapped_in_parens THEN j + 2 ELSE j + 1,
                  Append(AppendLiteral(parts, before),
                         Group(name, wrapped_in_parens)),
                  found_description \/ name = N_description)

compile_pattern(pattern) == CompileFrom(pattern, 1, 1, <<>>, FALSE)

\* the pieces templates are put together from
TemplatePieces ==
    {<<"{", "d", "e", "s", "c", "r", "i", "p", "t", "i", "o", "n", "}">>,
     <<"{", "t", "a", "g", "}">>,
     <<"{", "d", "a", "t", "e", "}">>,
     <<"{", "n", "a", "m", "e", "}">>,
     <<"{", "d", "o", "b", "}">>,
     <<"{", "f", "o", "o", "}">>,
     <<"(">>,
     <<")">>,
     <<"_">>,
     <<"{">>,
     <<"}">>}

RECURSIVE Concat(_)
Concat(ss) == IF ss = <<>> THEN <<>> ELSE Head(ss) \o Concat(Tail(ss))

Templates(maxPieces) ==
    UNION {{Concat(ps) : ps \in [1..n -> TemplatePieces]} : n \in 0..maxPieces}

InitCompile ==
    /\ tPattern \in Templates(MaxPieces)
    /\ tResult = None
    /\ tPc = "called"
    /\ BatchIdle /\ DistIdle /\ RetryIdle /\ LookupIdle /\ CacheIdle
    /\ DupIdle /\ UploadIdle /\ RestIdle

CompilePattern ==
    /\ tPc = "called"
    /\ tResult' = compile_pattern(tPattern)
    /\ tPc' = "done"
    /\ UNCHANGED <<tPattern, batchVars, distVars, retryVars, lookupVars,
                   cacheVars, dupVars, uploadVars, restVars>>

NextCompile == CompilePattern

SpecCompile == InitCompile /\ [][NextCompile]_vars

\* ------------------------------------------- src/parser.py, parse_date_mmddyy
\* two characters outside ASCII that str.isdigit accepts: a decimal digit of
\* another script, which int() reads, and a superscript, which int() refuses
ArabicIndicZero == "U+0660"
ArabicIndicOne == "U+0661"
SuperscriptTwo == "U+00B2"

IsDecimalChar(c) == IsDigit(c) \/ c \in {ArabicIndicZero, ArabicIndicOne}

DecimalCharValue(c) ==
    IF IsDigit(c) THEN DigitValue(c)
    ELSE IF c = ArabicIndicOne THEN 1 ELSE 0

\* str.isdigit
isdigit(text) ==
    /\ text # <<>>
    /\ \A i \in 1..Len(text) : IsDecimalChar(text[i]) \/ text[i] = SuperscriptTwo

RECURSIVE IntValue(_, _)
IntValue(text, acc) ==
    IF text = <<>> THEN acc
    ELSE IntValue(Tail(text), 10 * acc + DecimalCharValue(Head(text)))

\* int(text) for a text without sign or spaces
int(text) ==
    IF text # <<>> /\ \A i \in 1..Len(text) : IsDecimalChar(text[i])
    THEN [raised |-> FALSE, value |-> IntValue(text, 0)]
    ELSE [raised |-> TRUE, type |-> "ValueError"]

IsLeap(year) == year % 4 = 0 /\ (year % 100 # 0 \/ year % 400 = 0)

DaysInMonth(year, month) ==
    IF month = 2 THEN (IF IsLeap(year) THEN 29 ELSE 28)
    ELSE IF month \in {4, 6, 9, 11} THEN 30 ELSE 31

\* datetime.date(year, month, day)
date(year, month, day) ==
    IF month \in 1..12 /\ day >= 1 /\ day <= DaysInMonth(year, month)
    THEN [raised |-> FALSE,
          value |-> [year |-> year, month |-> month, day |-> day]]
    ELSE [raised |-> TRUE, type |-> "ValueError"]

\* `year = 2000 + year if year <= 50 else 1900 + year`
PivotYear(yy) == IF yy <= 50 THEN 2000 + yy ELSE 1900 + yy

parse_date_mmddyy(date_str) ==
    IF Len(date_str) # 6 \/ ~isdigit(date_str)
    THEN [raised |-> FALSE, value |-> None]
    ELSE LET mm == SubSeq(date_str, 1, 2)
             dd == SubSeq(date_str, 3, 4)
             yy == SubSeq(date_str, 5, 6)
         IN
         IF int(yy).raised THEN int(yy)
         ELSE IF int(mm).raised \/ int(dd).raised
         THEN [raised |-> FALSE, value |-> None]
         ELSE LET d == date(PivotYear(int(yy).value), int(mm).value,
                            int(dd).value)
              IN IF d.raised THEN [raised |-> FALSE, value |-> None] ELSE d

\* the pieces date strings are put together from
DatePieces ==
    {<<"0", "0">>, <<"0", "1">>, <<"0", "2">>, <<"0", "4">>, <<"1", "2">>,
     <<"1", "3">>, <<"2", "3">>, <<"2", "4">>, <<"2", "8">>, <<"2", "9">>,
     <<"3", "0">>, <<"3", "1">>, <<"3", "2">>, <<"5", "0">>, <<"5", "1">>,
     <<"9", "9">>, <<"0", "a">>, <<"1">>,
     <<ArabicIndicZero, ArabicIndicOne>>, <<SuperscriptTwo, SuperscriptTwo>>}

DateStrings(maxPieces) ==
    UNION {{Concat(ps) : ps \in [1..n -> DatePieces]} : n \in 0..maxPieces}

InitDate ==
    /\ mText \in DateStrings(MaxDatePieces)
    /\ mResult = None
    /\ mPc = "called"
    /\ BatchIdle /\ DistIdle /\ RetryIdle /\ LookupIdle /\ CacheIdle
    /\ DupIdle /\ UploadIdle /\ CompileIdle /\ FileIdle /\ SessionIdle
    /\ PagesIdle

ParseDate ==
    /\ mPc = "called"
    /\ mResult' = parse_date_mmddyy(mText)
    /\ mPc' = "done"
    /\ UNCHANGED <<mText, batchVars, distVars, retryVars, lookupVars,
                   cacheVars, dupVars, uploadVars, compileVars, fileVars,
                   sessionVars, pageVars>>

NextDate == ParseDate

SpecDate == InitDate /\ [][NextDate]_vars

\* --------------- src/processor.py 121-191 with src/api.py: check, then upload
\* the files of the run after parsing and lookup: one patient, one date, one
\* tag, two descriptions (two files may carry the same description)
SessionFiles ==
    {[patient_id |-> 1, date |-> "2026-02-03", description |-> x,
      metatag |-> <<"r">>] : x \in {"CXR", "MRI"}}

\* the document the server holds after a successful upload of the file: the
\* metatags are the text json.dumps([metatag])
UploadedDocument(file) ==
    Document(file.date, file.description,
             MetaStr(<<"[", Quote>> \o file.metatag \o <<Quote, "]">>))

ServerStates ==
    {[p \in {1} |-> docs] :
        docs \in {<<>>, <<Document("2026-02-03", "MRI", MetaList(<<<<"r">>>>))>>}}

\* a file between two of its steps, and a file whose processing has ended
FileAt(file, stage, since) == [file |-> file, stage |-> stage, since |-> since]
FileEnded(file, outcome, since) ==
    [file |-> file, outcome |-> outcome, since |-> since]

\* `if dup:` in _process_single_file, on the list is_duplicate has scanned
AfterDuplicateCheck(c, existing) ==
    IF is_duplicate(existing, c.file.date, c.file.description,
                    c.file.metatag).value
    THEN /\ cLog' = Append(cLog, FileEnded(c.file, "duplicate", c.since))
         /\ cPending' = cPending (-) OneCall(c)
    ELSE /\ cPending' = (cPending (-) OneCall(c))
                            (+) OneCall(FileAt(c.file, "upload", c.since))
         /\ UNCHANGED cLog

InitSession ==
    /\ sDocuments \in ServerStates
    /\ cRun = 1 /\ _patient_cache = <<>> /\ _documents_cache = <<>>
    /\ cPending = EmptyBag
    /\ cLog = <<>>
    /\ BatchIdle /\ DistIdle /\ RetryIdle /\ LookupIdle
    /\ DupIdle /\ UploadIdle /\ CompileIdle /\ DateIdle /\ FileIdle
    /\ PagesIdle

\* a worker takes its next file
SessionStartFile ==
    /\ BagCardinality(cPending) < MaxCallers /\ Started < MaxCalls
    /\ \E file \in SessionFiles :
         cPending' = cPending (+) OneCall(FileAt(file, "check", Len(cLog)))
    /\ UNCHANGED <<cRun, _patient_cache, _documents_cache, cLog, sDocuments,
                   batchVars, distVars, retryVars, lookupVars, dupVars,
                   uploadVars, compileVars, dateVars, fileVars,
                   pageVars>>

\* is_duplicate: get_patient_documents up to the cache test; on a hit the
\* cached list is scanned
SessionCheckCached ==
    /\ \E c \in BagToSet(cPending) :
         /\ c.stage = "check"
         /\ IF c.file.patient_id \in DOMAIN _documents_cache
            THEN AfterDuplicateCheck(c, _documents_cache[c.file.patient_id])
            ELSE /\ cPending' = (cPending (-) OneCall(c))
                                    (+) OneCall(FileAt(c.file, "fetch", c.since))
                 /\ UNCHANGED cLog
    /\ UNCHANGED <<cRun, _patient_cache, _documents_cache, sDocuments,
                   batchVars, distVars, retryVars, lookupVars, dupVars,
                   uploadVars, compileVars, dateVars, fileVars,
                   pageVars>>

\* get_patient_documents after a miss: the server's list is fetched, stored
\* with setdefault and returned; is_duplicate scans the fetched list
SessionFetch ==
    /\ \E c \in BagToSet(cPending) :
         /\ c.stage = "fetch"
         /\ LET documents == sDocuments[c.file.patient_id] IN
            /\ _documents_cache' =
                   setdefault(_documents_cache, c.file.patient_id, documents)
            /\ AfterDuplicateCheck(c, documents)
    /\ UNCHANGED <<cRun, _patient_cache, sDocuments, batchVars, distVars,
                   retryVars, lookupVars, dupVars, uploadVars, compileVars,
                   dateVars, fileVars, pageVars>>

\* upload_document: on 201 the server holds one more document; neither
\* upload_document nor its caller touches _documents_cache
SessionUpload ==
    /\ \E c \in BagToSet(cPending) :
         /\ c.stage = "upload"
         /\ cPending' = cPending (-) OneCall(c)
         /\ \/ /\ sDocuments' = [sDocuments EXCEPT ![c.file.patient_id] =
                                     Append(@, UploadedDocument(c.file))]
               /\ cLog' = Append(cLog, FileEnded(c.file, "uploaded", c.since))
            \/ /\ cLog' = Append(cLog, FileEnded(c.file, "failed", c.since))
               /\ UNCHANGED sDocuments
    /\ UNCHANGED <<cRun, _patient_cache, _documents_cache, batchVars, distVars,
                   retryVars, lookupVars, dupVars, uploadVars, compileVars,
                   dateVars, fileVars, pageVars>>

NextSession ==
    \/ SessionStartFile
    \/ SessionCheckCached
    \/ SessionFetch
    \/ SessionUpload

SpecSession == InitSession /\ [][NextSession]_vars

\* ----------------------------------- src/parser.py, the compiled pattern
\* the pieces of a regular expression as far as compile_pattern writes them:
\* a literal text, a repeated character class (with the named group it is
\* captured in, if any), the alternation of the tag codes, and an optional
\* non-capturing group
Unbounded == 1000
NoGroup == <<>>
Class(cls, min, max, greedy, group) ==
    [kind |-> "class", cls |-> cls, min |-> min, max |-> max,
     greedy |-> greedy, group |-> group]
Alternation(options, group) ==
    [kind |-> "alternation", options |-> options, group |-> group]
Optional(inner) == [kind |-> "optional", inner |-> inner]

AsciiUpper ==
    {"A", "B", "C", "D", "E", "F", "G", "H", "I", "J", "K", "L", "M", "N",
     "O", "P", "Q", "R", "S", "T", "U", "V", "W", "X", "Y", "Z"}
Whitespace == {" ", "\t", "\n"}

\* membership of a character in `[^,]`, `.`, `\s`, `[A-Z]`, `\d`
InClass(c, cls) ==
    CASE cls = "not_comma" -> c # ","
      [] cls = "any" -> c # "\n"
      [] cls = "space" -> c \in Whitespace
      [] cls = "upper" -> c \in AsciiUpper
      [] cls = "digit" -> IsDecimalChar(c)

\* the metatags dictionary is a sequence of entries in insertion order
TagEntry(code, category) == [code |-> code, category |-> category]
TagCodes(metatags) == [i \in 1..Len(metatags) |-> metatags[i].code]
HasTag(metatags, code) == \E i \in 1..Len(metatags) : metatags[i].code = code
TagFull(metatags, code) ==
    metatags[CHOOSE i \in 1..Len(metatags) : metatags[i].code = code].category

\* insertion into a list kept in descending length, after the entries of the
\* same length (sorted is stable, also with reverse=True)
RECURSIVE InsertByLen(_, _)
InsertByLen(k, ks) ==
    IF ks = <<>> THEN <<k>>
    ELSE IF Len(Head(ks)) >= Len(k) THEN <<Head(ks)>> \o InsertByLen(k, Tail(ks))
    ELSE <<k>> \o ks

RECURSIVE SortByLenDesc(_)
SortByLenDesc(ks) ==
    IF ks = <<>> THEN <<>>
    ELSE InsertByLen(ks[Len(ks)], SortByLenDesc(SubSeq(ks, 1, Len(ks) - 1)))

\* mutant: the codes in the order of the dictionary
tag_keys_Unsorted(metatags) == TagCodes(metatags)

\* `sorted(metatags.keys(), key=len, reverse=True)`
tag_keys(metatags) == SortByLenDesc(TagCodes(metatags))

\* `"|".join(...)` of no code is the empty pattern, which matches the empty text
tag_regex(metatags) ==
    <<Alternation(IF metatags = <<>> THEN <<<<>>>> ELSE tag_keys(metatags),
                  N_tag)>>

\* _PLACEHOLDER_REGEX, the tag regex and the regex of {description}
PlaceholderRegex(name, metatags) ==
    CASE name = N_name ->
           <<Class("not_comma", 1, Unbounded, TRUE, N_last_name),
             Literal(<<",">>),
             Class("space", 0, Unbounded, TRUE, NoGroup),
             Class("not_comma", 1, Unbounded, FALSE, N_first_name),
             Optional(<<Literal(<<",">>),
                        Class("space", 0, Unbounded, TRUE, NoGroup),
                        Class("not_comma", 1, Unbounded, FALSE,
                              N_middle_initial)>>)>>
      [] name = N_last_name -> <<Class("any", 1, Unbounded, FALSE, N_last_name)>>
      [] name = N_first_name -> <<Class("any", 1, Unbounded, FALSE, N_first_name)>>
      [] name = N_middle_initial -> <<Class("upper", 1, 1, TRUE, N_middle_initial)>>
      [] name = N_date -> <<Class("digit", 6, 6, TRUE, N_date)>>
      [] name = N_dob -> <<Class("digit", 6, 6, TRUE, N_dob)>>
      [] name = N_tag -> tag_regex(metatags)
      [] name = N_description ->
           <<Class("any", 1, Unbounded, TRUE, N_description)>>

\* the regex of the parts compile_pattern has collected; a placeholder in
\* parentheses is `(?:\(` ... `\))?`
RECURSIVE RegexOf(_, _)
RegexOf(parts, metatags) ==
    IF parts = <<>> THEN <<>>
    ELSE LET part == Head(parts)
             here ==
                 IF part.kind = "literal" THEN <<part>>
                 ELSE IF part.optional
                 THEN <<Optional(<<Literal(<<"(">>)>>
                                 \o PlaceholderRegex(part.name, metatags)
                                 \o <<Literal(<<")">>)>>)>>
                 ELSE PlaceholderRegex(part.name, metatags)
         IN here \o RegexOf(Tail(parts), metatags)

NoMatch == [ok |-> FALSE]

\* the number of characters of s from pos on that are in the class, up to max
RECURSIVE RunLength(_, _, _, _)
RunLength(s, pos, cls, max) ==
    IF max = 0 \/ pos > Len(s) \/ ~InClass(s[pos], cls) THEN 0
    ELSE 1 + RunLength(s, pos + 1, cls, max - 1)

Capture(groups, group, text) ==
    IF group = NoGroup THEN groups
    ELSE [g \in DOMAIN groups |-> IF g = group THEN Text(text) ELSE groups[g]]

\* the backtracking match of the regex `atoms` followed by `$` against s from
\* pos on: the first success in the order the matcher tries (a greedy
\* repetition longest first, a lazy one shortest first, an alternation left to
\* right, an optional group taken before it is skipped)
RECURSIVE MatchFrom(_, _, _, _)
RECURSIVE TryLengths(_, _, _, _, _, _, _)
RECURSIVE TryOptions(_, _, _, _, _, _)

TryLengths(a, rest, s, pos, groups, n, last) ==
    LET r == MatchFrom(rest, s, pos + n,
                       Capture(groups, a.group, SubSeq(s, pos, pos + n - 1)))
    IN IF r.ok THEN r
       ELSE IF n = last THEN NoMatch
       ELSE TryLengths(a, rest, s, pos, groups,
                       IF a.greedy THEN n - 1 ELSE n + 1, last)

TryOptions(a, i, rest, s, pos, groups) ==
    IF i > Len(a.options) THEN NoMatch
    ELSE LET o == a.options[i]
             r == IF pos + Len(o) - 1 <= Len(s)
                     /\ SubSeq(s, pos, pos + Len(o) - 1) = o
                  THEN MatchFrom(rest, s, pos + Len(o),
                                 Capture(groups, a.group, o))
                  ELSE NoMatch
         IN IF r.ok THEN r ELSE TryOptions(a, i + 1, rest, s, pos, groups)

MatchFrom(atoms, s, pos, groups) ==
    IF atoms = <<>>
    THEN IF pos = Len(s) + 1 \/ (pos = Len(s) /\ s[pos] = "\n")
         THEN [ok |-> TRUE, groups |-> groups]
         ELSE NoMatch
    ELSE LET a == Head(atoms)
             rest == Tail(atoms)
         IN
         CASE a.kind = "literal" ->
                IF pos + Len(a.text) - 1 <= Len(s)
                   /\ SubSeq(s, pos, pos + Len(a.text) - 1) = a.text
                THEN MatchFrom(rest, s, pos + Len(a.text), groups)
                ELSE NoMatch
           [] a.kind = "optional" ->
                LET r == MatchFrom(a.inner \o rest, s, pos, groups)
                IN IF r.ok THEN r ELSE MatchFrom(rest, s, pos, groups)
           [] a.kind = "alternation" -> TryOptions(a, 1, rest, s, pos, groups)
           [] a.kind = "class" ->
                LET run == RunLength(s, pos, a.cls, a.max) IN
                IF run < a.min THEN NoMatch
                ELSE IF a.greedy
                THEN TryLengths(a, rest, s, pos, groups, run, a.min)
                ELSE TryLengths(a, rest, s, pos, groups, a.min, run)

\* pattern_re.match(stem) and m.groupdict(): every named group of the pattern
\* is a key, with None for a group that took no part in the match
Match(parts, metatags, stem) ==
    MatchFrom(RegexOf(parts, metatags), stem, 1,
              [g \in Range(GroupNames(parts)) |-> NoText])

\* ------------------------------------------ src/parser.py, parse_filename
\* Path(filename).stem: the name up to its last dot, unless that dot is the
\* first or the last character
RECURSIVE LastDot(_, _)
LastDot(t, i) == IF i = 0 THEN 0 ELSE IF t[i] = "." THEN i ELSE LastDot(t, i - 1)

stem(filename) ==
    LET i == LastDot(filename, Len(filename)) IN
    IF 1 < i /\ i < Len(filename) THEN SubSeq(filename, 1, i - 1) ELSE filename

\* str.strip()
RECURSIVE lstrip(_)
lstrip(t) ==
    IF t # <<>> /\ Head(t) \in Whitespace THEN lstrip(Tail(t)) ELSE t
RECURSIVE rstrip(_)
rstrip(t) ==
    IF t # <<>> /\ t[Len(t)] \in Whitespace
    THEN rstrip(SubSeq(t, 1, Len(t) - 1)) ELSE t
strip(t) == rstrip(lstrip(t))

\* date.isoformat()
Pad(n, width) ==
    LET t == str(n) IN [i \in 1..(width - Len(t)) |-> "0"] \o t
isoformat(d) ==
    Pad(d.year, 4) \o <<"-">> \o Pad(d.month, 2) \o <<"-">> \o Pad(d.day, 2)

\* groups.get(name, ""): the default only for a name the pattern has no group of
GroupGet(groups, name) ==
    IF name \in DOMAIN groups THEN groups[name] ELSE Text(<<>>)

Returned(value) == [raised |-> FALSE, value |-> value]
Raised(type) == [raised |-> TRUE, type |-> type]

\* the fields ParsedFilename is called with, the record it keeps
ParsedFilenameOf(last_name, first_name, middle_initial, dob_iso, tag_code,
                 tag_full, doc_date, description) ==
    ParsedFilename([last_name |-> last_name, first_name |-> first_name,
                    middle_initial |-> middle_initial, dob |-> dob_iso,
                    tag_code |-> tag_code, tag_full |-> tag_full,
                    date |-> isoformat(doc_date),
                    description |-> IF description = <<>> THEN tag_full
                                    ELSE description])

\* parse_filename on the text of a file name: the record or None returned, or
\* the exception raised; a method called on None is an AttributeError, len(None)
\* a TypeError
ParseFilename(filename, metatags, parts) ==
    LET m == Match(parts, metatags, stem(filename))
        groups == m.groups
        tag == GroupGet(groups, N_tag)
        tag_code == upper(tag.text)
        date_str == GroupGet(groups, N_date)
        doc_date == parse_date_mmddyy(date_str.text)
        last == GroupGet(groups, N_last_name)
        first == GroupGet(groups, N_first_name)
        middle == GroupGet(groups, N_middle_initial)
        middle_initial ==
            IF Truthy(middle) /\ strip(middle.text) # <<>>
            THEN Text(strip(middle.text)) ELSE NoText
        description == GroupGet(groups, N_description)
        dob_raw == GroupGet(groups, N_dob)
        dob_date == IF Truthy(dob_raw) THEN parse_date_mmddyy(dob_raw.text)
                    ELSE Returned(None)
        dob_iso == IF dob_date.value = None THEN NoText
                   ELSE Text(isoformat(dob_date.value))
    IN
    IF ~m.ok THEN Returned(None)
    ELSE IF ~tag.present THEN Raised("AttributeError")
    ELSE IF ~HasTag(metatags, tag_code) THEN Returned(None)
    ELSE IF ~date_str.present THEN Raised("TypeError")
    ELSE IF doc_date.raised THEN doc_date
    ELSE IF doc_date.value = None THEN Returned(None)
    ELSE IF ~last.present \/ ~first.present THEN Raised("AttributeError")
    ELSE IF ~description.present THEN Raised("AttributeError")
    ELSE IF dob_date.raised THEN dob_date
    ELSE IF strip(last.text) = <<>> \/ strip(first.text) = <<>>
    THEN Returned(None)
    ELSE Returned(ParsedFilenameOf(strip(last.text), strip(first.text),
                     middle_initial, dob_iso, tag_code,
                     TagFull(metatags, tag_code), doc_date.value,
                     strip(description.text)))

\* -------------------------- parse_filename on file names written from a template
Ph(name) == <<"{">> \o name \o <<"}">>

\* "{name}({dob})_{tag}_{date}_{description}"
DEFAULT_PATTERN ==
    Ph(N_name) \o <<"(">> \o Ph(N_dob) \o <<")", "_">> \o Ph(N_tag) \o <<"_">>
        \o Ph(N_date) \o <<"_">> \o Ph(N_description)

\* the templates of the runs: the default one, one with the tag before the
\* name, one with the tag next to the description, two with a required field
\* in parentheses, one with the two name fields next to each other
ParseTemplates ==
    {DEFAULT_PATTERN,
     Ph(N_tag) \o <<"_">> \o Ph(N_name) \o <<"_">> \o Ph(N_date) \o <<"_">>
         \o Ph(N_description),
     Ph(N_last_name) \o <<",">> \o Ph(N_first_name) \o <<"_">> \o Ph(N_date)
         \o <<"_">> \o Ph(N_tag) \o Ph(N_description),
     Ph(N_name) \o <<"_", "(">> \o Ph(N_tag) \o <<")", "_">> \o Ph(N_date)
         \o <<"_">> \o Ph(N_description),
     Ph(N_last_name) \o <<",">> \o Ph(N_first_name) \o <<"(">>
         \o Ph(N_middle_initial) \o <<")", "_">> \o Ph(N_tag) \o <<"_", "(">>
         \o Ph(N_date) \o <<")", "_">> \o Ph(N_description),
     Ph(N_last_name) \o Ph(N_first_name) \o <<"_">> \o Ph(N_tag) \o <<"_">>
         \o Ph(N_date) \o <<"_">> \o Ph(N_description)}

TagMaps ==
    {<<TagEntry(<<"H">>, <<"h", "p">>), TagEntry(<<"H", "P">>, <<"h", "&", "p">>),
       TagEntry(<<"R">>, <<"r", "a", "d">>)>>,
     <<TagEntry(<<"r">>, <<"r", "a", "d">>)>>}

FieldValues ==
    [last_name : {Text(<<"D", "O", "E">>)},
     first_name : {Text(<<"J", "A", "N", "E">>), Text(<<"J", "O">>)},
     middle_initial : {NoText, Text(<<"M">>)},
     middle_separator : {<<",">>, <<" ">>},
     tag : {NoText, Text(<<"H">>), Text(<<"H", "P">>), Text(<<"r">>)},
     date : {NoText, Text(<<"0", "2", "0", "3", "2", "6">>),
             Text(<<"0", "1", "0", "1", "5", "1">>),
             Text(<<"1", "3", "0", "1", "2", "6">>)},
     dob : {NoText, Text(<<"0", "1", "0", "1", "9", "0">>),
            Text(<<"0", "2", "3", "0", "9", "0">>)},
     description : {Text(<<"C", "X", "R">>), Text(<<"A", "_", "B">>)}]

\* the text a placeholder stands for, given the field values
ValueOf(name, v) ==
    CASE name = N_name ->
           IF v.last_name.present /\ v.first_name.present
           THEN Text(v.last_name.text \o <<",">> \o v.first_name.text
                     \o IF v.middle_initial.present
                        THEN v.middle_separator \o v.middle_initial.text
                        ELSE <<>>)
           ELSE NoText
      [] name = N_last_name -> v.last_name
      [] name = N_first_name -> v.first_name
      [] name = N_middle_initial -> v.middle_initial
      [] name = N_tag -> v.tag
      [] name = N_date -> v.date
      [] name = N_dob -> v.dob
      [] name = N_description -> v.description

\* every value the template asks for outside parentheses is there; the
\* separator before the middle initial of a composite name is a comma, or a
\* space as in 'DOE,JANE M'
Writable(parts, v) ==
    /\ \A i \in 1..Len(parts) :
           (parts[i].kind = "group" /\ ~parts[i].optional)
               => ValueOf(parts[i].name, v).present
    /\ v.middle_separator = <<" ">> =>
           /\ v.middle_initial.present
           /\ \E i \in 1..Len(parts) :
                  parts[i].kind = "group" /\ parts[i].name = N_name

\* the file name written from the template: each placeholder replaced by its
\* value, a placeholder in parentheses without a value left out with them
RECURSIVE Substitute(_, _)
Substitute(parts, v) ==
    IF parts = <<>> THEN <<>>
    ELSE LET part == Head(parts)
             here ==
                 IF part.kind = "literal" THEN part.text
                 ELSE IF ~part.optional THEN ValueOf(part.name, v).text
                 ELSE IF ValueOf(part.name, v).present
                 THEN <<"(">> \o ValueOf(part.name, v).text \o <<")">>
                 ELSE <<>>
         IN here \o Substitute(Tail(parts), v)

Extension == <<".", "p", "d", "f">>

\* the pieces of the file names that were written by hand
FilenamePieces ==
    {<<"D", "O", "E", ",", "J", "A", "N", "E">>, <<"_">>, <<"H", "P">>,
     <<"0", "2", "0", "3", "2", "6">>, <<"C", "X", "R">>, <<",", " ">>,
     <<"(", "0", "1", "0", "1", "9", "0", ")">>, Extension}

Filenames(maxPieces) ==
    UNION {{Concat(ps) : ps \in [1..n -> FilenamePieces]} : n \in 0..maxPieces}

InitParse ==
    /\ fPattern \in ParseTemplates
    /\ fMetatags \in TagMaps
    /\ \/ /\ fValues \in FieldValues
          /\ Writable(compile_pattern(fPattern).parts, fValues)
          /\ fFilename =
                 Substitute(compile_pattern(fPattern).parts, fValues) \o Extension
       \/ /\ fValues = None
          /\ fFilename \in Filenames(MaxNamePieces)
    /\ fResult = None
    /\ fPc = "called"
    /\ BatchIdle /\ DistIdle /\ RetryIdle /\ LookupIdle /\ CacheIdle
    /\ DupIdle /\ UploadIdle /\ CompileIdle /\ DateIdle /\ SessionIdle
    /\ PagesIdle

ParseFile ==
    /\ fPc = "called"
    /\ fResult' = ParseFilename(fFilename, fMetatags,
                                compile_pattern(fPattern).parts)
    /\ fPc' = "done"
    /\ UNCHANGED <<fPattern, fMetatags, fValues, fFilename, batchVars, distVars,
                   retryVars, lookupVars, cacheVars, dupVars, uploadVars,
                   compileVars, dateVars, sessionVars,
                   pageVars>>

NextParse == ParseFile

SpecParse == InitParse /\ [][NextParse]_vars

\* ------------------------- src/api.py, get_patient_documents page by page
Callers == 1..MaxCallers
PatientIds == {1, 2}

\* the pages the server holds for a patient: one empty page, or up to MaxPages
\* pages of one document each
ServerPages(patient_id) ==
    {<<<<>>>>} \cup
    {[k \in 1..n |-> <<[patient |-> patient_id, page |-> k]>>] : n \in 1..MaxPages}

\* the JSON of the page at `url`: its results and the url of the next page
PageData(pages, url) ==
    [results |-> pages[url.some],
     next |-> IF url.some < Len(pages) THEN [some |-> url.some + 1] ELSE None]

\* mutant: the loop stops after the first page
MorePages_FirstPageOnly(url) == FALSE

\* `while url:`
MorePages(url) == url # None

Free == [pc |-> "free"]
Fetching(patient_id, url, documents, since) ==
    [pc |-> "loop", patient_id |-> patient_id, url |-> url,
     documents |-> documents, since |-> since]
Failed(call, exc) ==
    [pc |-> "raised", patient_id |-> call.patient_id, exc |-> exc,
     documents |-> call.documents]

Active == {c \in Callers : gCalls[c].pc \in {"loop", "store"}}

InitPages ==
    /\ gServer \in [PatientIds -> UNION {ServerPages(p) : p \in PatientIds}]
    /\ \A p \in PatientIds : gServer[p] \in ServerPages(p)
    /\ gCalls = [c \in Callers |-> Free]
    /\ cRun = 1 /\ _patient_cache = <<>> /\ _documents_cache = <<>>
    /\ cPending = EmptyBag /\ cLog = <<>>
    /\ BatchIdle /\ DistIdle /\ RetryIdle /\ LookupIdle
    /\ DupIdle /\ UploadIdle /\ CompileIdle
    /\ DateIdle /\ FileIdle /\ SessionIdle

\* get_patient_documents up to the loop, called by a thread that is not inside
\* a call: a hit returns the cached list, a miss sets up the first request
GetDocumentsCall(c) ==
    /\ gCalls[c].pc \in {"free", "raised"}
    /\ Len(cLog) + Cardinality(Active) < MaxPageCalls
    /\ \E patient_id \in PatientIds :
         IF patient_id \in DOMAIN _documents_cache
         THEN /\ cLog' = Append(cLog, LogEntry("get_patient_documents", patient_id,
                             _documents_cache[patient_id], FALSE, FALSE, Len(cLog)))
              /\ gCalls' = [gCalls EXCEPT ![c] = Free]
         ELSE /\ gCalls' = [gCalls EXCEPT ![c] =
                               Fetching(patient_id, [some |-> 1], <<>>, Len(cLog))]
              /\ UNCHANGED cLog
    /\ UNCHANGED <<cRun, _patient_cache, _documents_cache, cPending, gServer,
                   batchVars, distVars, retryVars, lookupVars, dupVars,
                   uploadVars, compileVars, dateVars, fileVars, sessionVars>>

\* one pass of the loop body: the request; _request_with_retry or
\* raise_for_status may raise, which leaves the call; otherwise the page is
\* appended and `next` becomes the url
GetDocumentsPage(c) ==
    /\ gCalls[c].pc = "loop"
    /\ LET call == gCalls[c] IN
       \/ \E exc \in {"RateLimitError", "HTTPError"} :
            /\ gCalls' = [gCalls EXCEPT ![c] = Failed(call, exc)]
            /\ cLog' = Append(cLog, LogEntry("get_patient_documents",
                                   call.patient_id, None, TRUE, TRUE, call.since))
       \/ LET data == PageData(gServer[call.patient_id], call.url)
              documents == call.documents \o data.results
          IN
          /\ gCalls' = [gCalls EXCEPT ![c] =
                 [Fetching(call.patient_id, data.next, documents, call.since)
                     EXCEPT !.pc = IF MorePages(data.next) THEN "loop" ELSE "store"]]
          /\ UNCHANGED cLog
    /\ UNCHANGED <<cRun, _patient_cache, _documents_cache, cPending, gServer,
                   batchVars, distVars, retryVars, lookupVars, dupVars,
                   uploadVars, compileVars, dateVars, fileVars, sessionVars>>

\* after the loop: setdefault under the lock, return documents
GetDocumentsStore(c) ==
    /\ gCalls[c].pc = "store"
    /\ LET call == gCalls[c] IN
       /\ _documents_cache' =
              setdefault(_documents_cache, call.patient_id, call.documents)
       /\ cLog' = Append(cLog, LogEntry("get_patient_documents", call.patient_id,
                              call.documents, FALSE, TRUE, call.since))
    /\ gCalls' = [gCalls EXCEPT ![c] = Free]
    /\ UNCHANGED <<cRun, _patient_cache, cPending, gServer,
                   batchVars, distVars, retryVars, lookupVars, dupVars,
                   uploadVars, compileVars, dateVars, fileVars, sessionVars>>

NextPages ==
    \/ \E c \in Callers : GetDocumentsCall(c)
    \/ \E c \in Callers : GetDocumentsPage(c)
    \/ \E c \in Callers : GetDocumentsStore(c)

SpecPages == InitPages /\ [][NextPages]_vars

\* ------------------------------------------------------------------ claims
Names == DOMAIN calls
Parsable == {f \in DOMAIN kind : kind[f] = "parsable"}
StagesOf(f) == {calls[f][i].stage : i \in 1..Len(calls[f])}
HasStage(f, name, outcome) ==
    \E i \in 1..Len(calls[f]) : calls[f][i] = Stage(name, outcome)
RunOver == mainPc \in {"done", "aborted"}
StageRank(name) ==
    CASE name = "parse" -> 1
      [] name = "find_patient" -> 2
      [] name = "is_duplicate" -> 3
      [] name = "upload_document" -> 4
      [] name = "move" -> 5

C2_NoErrorAbortsBatch ==
    /\ \A w \in Workers : wpc[w] # "raised"
    /\ mainPc \notin {"unwinding", "aborted"}

\* C3: a file for which is_duplicate returned true is never uploaded and is
\* listed under Duplicates; when every patient is found and every document is
\* a duplicate, no upload is made and the run ends with a summary whose
\* Duplicates count is the number of parsable files
C3_DuplicatesNotUploaded ==
    /\ \A f \in Names :
         HasStage(f, "is_duplicate", "true") =>
             /\ "upload_document" \notin StagesOf(f)
             /\ mainPc = "done" => \E i \in 1..Len(duplicate_files) :
                                       duplicate_files[i] = f
    /\ (RunOver /\ remote.lookup = "found" /\ remote.dup = "true") =>
           /\ \A f \in Names : "upload_document" \notin StagesOf(f)
           /\ printed.printed
           /\ printed.duplicates = Cardinality(Parsable)

\* C4: a file whose lookup, duplicate check or upload ended in a
\* RateLimitError runs no later stage and is listed under Rate-limited and not
\* under Failed; when every lookup is rate limited the run ends with a summary
\* whose Rate-limited count is the number of parsable files and whose Failed
\* count is 0
C4_RateLimitedNotFailed ==
    /\ \A f \in Names : \A i \in 1..Len(calls[f]) :
         calls[f][i].outcome = "rate_limit" =>
             /\ i = Len(calls[f])
             /\ mainPc = "done" =>
                    /\ \E j \in 1..Len(rate_limited_files) : rate_limited_files[j] = f
                    /\ \A j \in 1..Len(failed_files) : failed_files[j] # f
    /\ (RunOver /\ remote.lookup = "rate_limit") =>
           /\ printed.printed
           /\ printed.rate_limited = Cardinality(Parsable)
           /\ printed.failed = 0

\* C5: in a dry run no upload is made and no file is moved, and when the run
\* is over find_patient has been called for every parsable file, is_duplicate
\* for every one whose patient was found, and the files found and not
\* duplicate are counted as Uploaded
C5_DryRunPreviews ==
    dry_run =>
        /\ \A f \in Names : StagesOf(f) \cap {"upload_document", "move"} = {}
        /\ destDir = {}
        /\ RunOver =>
             /\ \A f \in Parsable :
                    /\ "find_patient" \in StagesOf(f)
                    /\ HasStage(f, "find_patient", "found") =>
                           "is_duplicate" \in StagesOf(f)
             /\ printed.printed
             /\ printed.uploaded =
                    Cardinality({f \in Names : HasStage(f, "is_duplicate", "false")})

ReturnedWithoutSuccess(f) ==
    \E w \in Workers : \E i \in 1..Len(wresults[w]) :
        wresults[w][i].filename = f /\ ~wresults[w][i].succeeded

IsSortedSeq(s) == \A i, j \in 1..Len(s) : i < j => s[i] < s[j]
IndicesOf(w, n, len) == {i \in 0..(len - 1) : i % n = w}

\* C7: the listing is sorted by name and the file at sorted index i goes to
\* worker i mod N, in index order
C7_RoundRobin ==
    dPc = "distributed" =>
        /\ IsSortedSeq(dFiles)
        /\ Range(dFiles) = Range(dListing) /\ Len(dFiles) = Len(dListing)
        /\ DOMAIN dChunks = 0..(dWorkers - 1)
        /\ \A w \in 0..(dWorkers - 1) :
               /\ Len(dChunks[w]) =
                      Cardinality(IndicesOf(w, dWorkers, Len(dFiles)))
               /\ \A k \in 1..Len(dChunks[w]) :
                      dChunks[w][k] = dFiles[(k - 1) * dWorkers + w + 1]

\* 5 files listed out of order and 3 workers: index sets {0,3}, {1,4}, {2}
C7_Witness ==
    /\ dPc = "distributed" /\ dWorkers = 3 /\ Len(dFiles) = 5
    /\ dListing # dFiles
    /\ dChunks[0] = <<dFiles[1], dFiles[4]>>
    /\ dChunks[1] = <<dFiles[2], dFiles[5]>>
    /\ dChunks[2] = <<dFiles[3]>>

\* the single-worker run over the same sorted files: _worker_task's loop
RECURSIVE SequentialRun(_, _)
SequentialRun(fs, acc) ==
    IF fs = <<>> THEN [aborted |-> FALSE, results |-> acc]
    ELSE LET out == _process_single_file(Head(fs), kind[Head(fs)], remote,
                                         dry_run, dest_dir)
         IN IF out.raised THEN [aborted |-> TRUE, results |-> acc]
            ELSE SequentialRun(Tail(fs), Append(acc, out.result))

RetryOver == rPc \in {"returned", "raised"}
AllThrottled == \A i \in 1..Len(rResponses) : rResponses[i].status = 429
EveryRequestAnswered == rError = None \/ rError.type # "ConnectionError"

\* C9: when every response is a 429 the call sends exactly MAX_RETRIES + 1
\* requests, sleeps exactly MAX_RETRIES times and raises RateLimitError; no
\* call sends a fifth request or returns a 429
C9_ExhaustedRetries ==
    /\ Len(rResponses) <= MAX_RETRIES + 1
    /\ rPc = "returned" => rReturned.status # 429
    /\ (RetryOver /\ rResponses # <<>> /\ AllThrottled /\ EveryRequestAnswered) =>
           /\ rError.type = "RateLimitError"
           /\ Len(rResponses) = MAX_RETRIES + 1
           /\ Len(rSleeps) = MAX_RETRIES

\* C10: a response that is not a 429 is returned at once: it is the last
\* response received, every response before it was a 429 followed by one
\* sleep, no sleep follows it, and a first response 200 or 500 ends the call
\* after one request
C10_NonThrottledReturned ==
    /\ \A i \in 1..Len(rResponses) :
           rResponses[i].status # 429 =>
               /\ i = Len(rResponses)
               /\ rPc = "returned" /\ rReturned = rResponses[i]
               /\ rError = None
               /\ Len(rSleeps) = i - 1
    /\ (rResponses # <<>> /\ rResponses[1].status \in {200, 500}) =>
           Len(rResponses) = 1 /\ rSleeps = <<>>

\* a first response 500 handed back after one request and no sleep
C10_Witness ==
    /\ rPc = "returned"
    /\ rResponses = <<Response(500, NoHeader)>>
    /\ rReturned = Response(500, NoHeader)
    /\ rSleeps = <<>>

\* the backoff of the attempts 0, 1, 2 in seconds, as the claim lists it
BackoffSeconds(k) == CASE k = 0 -> 2 [] k = 1 -> 4 [] k = 2 -> 8

\* the value v of the claim for the 429 answered to attempt k
ClaimedBase(resp, k) ==
    IF resp.retry_after.present /\ float(resp.retry_after.text).ok
    THEN float(resp.retry_after.text).value
    ELSE BackoffSeconds(k)

WaitAsClaimed(ms, resp, k) ==
    LET floor == Min(ClaimedBase(resp, k), 30) * 1000 IN
    /\ ms >= floor /\ ms < floor + 1000
    /\ ms < 31000

\* C11: the wait before the retry that follows attempt k (k = 0, 1, 2) is
\* min(v, 30) seconds plus a jitter in [0, 1), v being the numeric Retry-After
\* value of the 429 and otherwise 2, 4, 8 seconds; every sleep is at least
\* min(v, 30) and below 31 seconds
C11_WaitClampedPlusJitter ==
    /\ Len(rSleeps) <= 3
    /\ \A i \in 1..Len(rSleeps) :
           WaitAsClaimed(rSleeps[i], rResponses[i], i - 1)
    /\ rPc = "sleep" =>
           WaitAsClaimed(rWait, rResponses[Len(rResponses)], rAttempt)

\* three sleeps: backoff 2 s without a header, the header value 2 s on the
\* second attempt where the backoff would be 4 s, and 45 s clamped to 30 s
C11_Witness ==
    /\ Len(rSleeps) = 3
    /\ rResponses[1].retry_after = NoHeader /\ rSleeps[1] = 2999
    /\ rResponses[2].retry_after = Header(<<"2">>) /\ rSleeps[2] = 2000
    /\ rResponses[3].retry_after = Header(<<"4", "5">>) /\ rSleeps[3] = 30999

\* C12: the RateLimitError raised when the retries are exhausted has
\* is_app_limit true exactly if the last 429 carried a Retry-After value above
\* 60, the value being the header's and not the clamped wait, and its
\* retry_after is that header value, or None without a header
C12_AppLimitFromHeader ==
    (rError # None /\ rError.type = "RateLimitError") =>
        LET h == rResponses[Len(rResponses)].retry_after IN
        /\ Len(rResponses) = MAX_RETRIES + 1
        /\ rError.is_app_limit <=> (h.present /\ DecimalValue(h.text, 0) > 60)
        /\ rError.retry_after =
               IF h.present THEN [some |-> DecimalValue(h.text, 0)] ELSE None

\* retries exhausted on a 429 with Retry-After 61: the error is flagged as the
\* application limit and carries 61, while the sleeps before it were clamped
C12_Witness ==
    /\ rError # None /\ rError.type = "RateLimitError"
    /\ rError.is_app_limit /\ rError.retry_after = [some |-> 61]
    /\ \A i \in 1..3 : rResponses[i].retry_after = Header(<<"6", "1">>)
                         /\ rSleeps[i] < 31000

\* two characters that are the same letter in either case
SameLetter(c, d) ==
    \/ c = d
    \/ \E k \in 1..Len(LowerLetters) : {c, d} = {LowerLetters[k], UpperLetters[k]}
EqualIgnoringCase(a, b) ==
    Len(a) = Len(b) /\ \A i \in 1..Len(a) : SameLetter(a[i], b[i])

\* a filter of the claim: applied while more than one candidate remains, its
\* result kept only if some candidate passes
Keep(cands, Pass(_)) ==
    IF Len(cands) > 1 /\ \E i \in 1..Len(cands) : Pass(cands[i])
    THEN SelectSeq(cands, Pass)
    ELSE cands

\* the candidates the claim leaves for a query
ClaimedRemaining(cands, q) ==
    LET Middle(p) ==
            ~Truthy(q.middle_initial) \/
            /\ p.middle_name.present
            /\ Len(p.middle_name.text) >= Len(q.middle_initial.text)
            /\ EqualIgnoringCase(
                   SubSeq(p.middle_name.text, 1, Len(q.middle_initial.text)),
                   q.middle_initial.text)
        Exact(p) ==
            /\ EqualIgnoringCase(p.last_name, q.last_name)
            /\ EqualIgnoringCase(p.first_name, q.first_name)
        Born(p) ==
            ~Truthy(q.dob) \/ (p.date_of_birth.present /\
                               p.date_of_birth.text = q.dob.text)
    IN Keep(Keep(Keep(cands, Middle), Exact), Born)

\* C13: find_patient narrows the server's list by middle-initial prefix, then
\* exact case-insensitive last and first name, then exact date of birth, each
\* filter only while more than one candidate remains and kept only if it
\* leaves somebody; no candidate left gives NotFound, one gives Found with
\* that candidate's id and doctor, more give MultipleMatches
C13_NarrowingOrder ==
    lPc = "returned" =>
        LET left == ClaimedRemaining(lData, lQuery) IN
        /\ Len(left) = 0 =>
               lResult.status = "not_found" /\ lResult.patient_id = None
        /\ Len(left) = 1 =>
               /\ lResult.status = "found"
               /\ lResult.patient_id = [some |-> left[1].id]
               /\ lResult.doctor_id = left[1].doctor
        /\ Len(left) > 1 =>
               /\ lResult.status = "multiple_matches"
               /\ lResult.detail.names = [i \in 1..Len(left) |-> left[i].id]

\* three namesakes, two with a middle name in M, two born 1990-01-01: middle
\* initial m and that date of birth together leave patient 1
C13_Witness ==
    /\ lPc = "returned"
    /\ Len(lData) = 3 /\ {lData[i].id : i \in 1..3} = {1, 2, 3}
    /\ lQuery = Query(<<"a">>, <<"B">>, Text(<<"m">>), Text(D1990))
    /\ lResult = PatientLookupResult("found", [some |-> 1], [some |-> 5], None)

SameOptionalIgnoringCase(a, b) ==
    a.present = b.present /\ EqualIgnoringCase(a.text, b.text)

\* the arguments of two calls agree: names equal ignoring case, dob equal
SameArguments(q1, q2) ==
    /\ EqualIgnoringCase(q1.last_name, q2.last_name)
    /\ EqualIgnoringCase(q1.first_name, q2.first_name)
    /\ SameOptionalIgnoringCase(q1.middle_initial, q2.middle_initial)
    /\ q1.dob = q2.dob

\* the calls of find_patient that had returned a result for the arguments of
\* call j when call j began
ReturnedBefore(j) ==
    {i \in 1..cLog[j].since :
        /\ cLog[i].op = "find_patient" /\ ~cLog[i].raised
        /\ SameArguments(cLog[i].arg, cLog[j].arg)}

LookupCalls == {j \in 1..Len(cLog) : cLog[j].op = "find_patient"}

\* a call is answered from the cache only if a call with the same names and
\* the same dob returned before it: another dob is another entry
SeparateEntries ==
    \A j \in LookupCalls :
        ~cLog[j].requested => ReturnedBefore(j) # {}

\* C14: once find_patient has returned a result for (last, first, middle,
\* dob), every later call with the same names ignoring case and the same dob
\* returns that same result and sends no request; calls that differ in dob use
\* separate entries and send separate requests
C14_LaterCallsGetSameResult ==
    /\ \A j \in LookupCalls : \A i \in ReturnedBefore(j) :
           /\ ~cLog[j].requested /\ ~cLog[j].raised
           /\ cLog[j].result = cLog[i].result
    /\ SeparateEntries

Least(S) == CHOOSE i \in S : \A k \in S : i <= k

\* C14 as amended: every later call sends no request and returns the result
\* that was stored first for those arguments
C14_LaterCallsGetFirstStored ==
    /\ \A j \in LookupCalls :
           ReturnedBefore(j) # {} =>
               /\ ~cLog[j].requested /\ ~cLog[j].raised
               /\ cLog[j].result = cLog[Least(ReturnedBefore(j))].result
    /\ SeparateEntries

\* a lookup answered by the server, the same patient asked for again in lower
\* case and answered from the cache, and asked for with another date of birth
\* and answered by the server with another result
C14_Witness ==
    /\ Len(cLog) = 3
    /\ cLog[1].arg = Query(<<"A">>, <<"B">>, Text(<<"M">>), Text(D1990))
    /\ cLog[1].requested /\ ~cLog[1].raised
    /\ cLog[1].result.patient_id = [some |-> 1]
    /\ cLog[2].arg = Query(<<"a">>, <<"b">>, Text(<<"m">>), Text(D1990))
    /\ cLog[2].since = 1
    /\ ~cLog[2].requested /\ cLog[2].result = cLog[1].result
    /\ cLog[3].arg = Query(<<"A">>, <<"B">>, Text(<<"M">>), Text(D1985))
    /\ cLog[3].requested /\ ~cLog[3].raised
    /\ cLog[3].result.patient_id = [some |-> 2]

\* two ended calls ask for the same cache entry
SameEntry(a, b) ==
    /\ a.op = b.op
    /\ IF a.op = "find_patient" THEN SameArguments(a.arg, b.arg)
       ELSE a.arg = b.arg

\* C15: both caches live for one batch run only: a run that has not yet made
\* a call finds both caches empty, and a call is answered from a cache only
\* if a call of its own run fetched that entry
C15_CachesLiveForOneRun ==
    /\ (cRun >= 1 /\ cPending = EmptyBag
            /\ \A i \in 1..Len(cLog) : cLog[i].run # cRun) =>
           _patient_cache = <<>> /\ _documents_cache = <<>>
    /\ \A j \in 1..Len(cLog) :
           ~cLog[j].requested =>
               \E i \in 1..(j - 1) :
                   /\ cLog[i].run = cLog[j].run
                   /\ cLog[i].requested /\ ~cLog[i].raised
                   /\ SameEntry(cLog[i], cLog[j])

\* the JSON text of a list of tags, with the given separator
RECURSIVE JsonItems(_, _)
JsonItems(tags, sep) ==
    IF tags = <<>> THEN <<>>
    ELSE <<Quote>> \o Head(tags) \o <<Quote>>
         \o (IF Tail(tags) = <<>> THEN <<>> ELSE sep \o JsonItems(Tail(tags), sep))
JsonOf(tags, sep) == <<"[">> \o JsonItems(tags, sep) \o <<"]">>

TagNames == {<<"r">>, <<"l">>}
TagLists == UNION {[1..n -> TagNames] : n \in 0..2}

\* the metatags value holds the tag: it is a native list with the tag in it, or
\* the JSON text of a list with the tag in it
HoldsTag(m, tag) ==
    \/ m.kind = "list" /\ \E i \in 1..Len(m.items) : m.items[i] = tag
    \/ /\ m.kind = "str"
       /\ \E l \in TagLists :
            /\ \E i \in 1..Len(l) : l[i] = tag
            /\ m.text \in {JsonOf(l, <<",">>), JsonOf(l, <<",", " ">>)}

UploadOver == uPc \in {"returned", "raised"}

\* C17: upload_document returns Success with the server's id exactly when
\* the final response is a 201, returns Failed with the detail
\* '<status>: <body>' for every other status that is not 429, and raises only
\* when the 429 retries are exhausted or on a transport error
C17_UploadOutcome ==
    /\ uPc = "returned" =>
           LET resp == rResponses[Len(rResponses)] IN
           /\ resp.status # 429
           /\ (resp.status = 201) <=> (uResult.status = "success")
           /\ uResult.status = "success" =>
                  uResult.document_id = resp.id
           /\ uResult.status # "success" =>
                  /\ uResult.status = "failed"
                  /\ uResult.detail.text =
                         (CASE resp.status = 200 -> <<"2", "0", "0">>
                            [] resp.status = 400 -> <<"4", "0", "0">>
                            [] resp.status = 500 -> <<"5", "0", "0">>)
                         \o <<":", " ">> \o resp.text
    /\ (UploadOver /\ rPc = "returned") => uPc = "returned"
    /\ uPc = "raised" =>
           \/ uError.type = "ConnectionError"
           \/ /\ uError.type = "RateLimitError"
              /\ Len(rResponses) = MAX_RETRIES + 1 /\ AllThrottled

WrappedDetail(stage) ==
    IF stage = "find_patient" THEN "patient lookup failed: str(exc)"
    ELSE "duplicate check failed: str(exc)"

InSeq(x, s) == \E i \in 1..Len(s) : s[i] = x

\* the run ended with the summary, every file was processed, and the parsable
\* files are all counted as Failed and none as Rate-limited
AllParsableFailed ==
    /\ printed.printed
    /\ \A f \in Names : calls[f] # <<>>
    /\ printed.failed = Cardinality(Parsable)
    /\ printed.rate_limited = 0

\* C18: a requests.RequestException raised by find_patient or is_duplicate
\* makes the file failed with the detail 'patient lookup failed: ...' or
\* 'duplicate check failed: ...', listed under Failed and not under
\* Rate-limited, with no upload for that file, and the other files are still
\* processed: when every lookup (or every duplicate check) raises it, the run
\* ends with a summary whose Failed count is the number of parsable files
C18_TransportErrorIsFailed ==
    /\ \A f \in Names : \A i \in 1..Len(calls[f]) :
         (calls[f][i].stage \in {"find_patient", "is_duplicate"}
              /\ calls[f][i].outcome = "request_exception") =>
             /\ i = Len(calls[f])
             /\ \A w \in Workers : \A k \in 1..Len(wresults[w]) :
                    wresults[w][k].filename = f =>
                        /\ ~wresults[w][k].succeeded
                        /\ wresults[w][k].category = "failed"
                        /\ wresults[w][k].detail = WrappedDetail(calls[f][i].stage)
             /\ mainPc = "done" =>
                    InSeq(f, failed_files) /\ ~InSeq(f, rate_limited_files)
    /\ (RunOver /\ remote.lookup = "request_exception") => AllParsableFailed
    /\ (RunOver /\ remote.lookup = "found" /\ remote.dup = "request_exception") =>
           AllParsableFailed

\* the places (start, end) where a template references a placeholder: a `{`,
\* one or more word characters and a `}`
References(p) ==
    {ij \in (1..Len(p)) \X (1..Len(p)) :
        /\ ij[1] + 1 < ij[2]
        /\ p[ij[1]] = "{"
        /\ p[ij[2]] = "}"
        /\ \A k \in (ij[1] + 1)..(ij[2] - 1) : IsWordChar(p[k])}

ReferencedName(p, ij) == SubSeq(p, ij[1] + 1, ij[2] - 1)

RecognisedNames ==
    {N_name, N_last_name, N_first_name, N_middle_initial, N_tag, N_date,
     N_dob, N_description}

UnknownReferences(p) ==
    {ij \in References(p) : ReferencedName(p, ij) \notin RecognisedNames}

LacksDescription(p) ==
    \A ij \in References(p) : ReferencedName(p, ij) # N_description

\* C19 (as stated): every template without the {description} placeholder is
\* rejected with the missing-description error, whatever other placeholders and
\* literal text it contains.
C19_MissingDescriptionFails ==
    (tPc = "done" /\ LacksDescription(tPattern))
        => (~tResult.ok /\ tResult.error = "missing_description")

\* C19 (amended): every template without the {description} placeholder is
\* rejected; the error is the missing-description error when every placeholder
\* it references is a recognised one, and the unknown-placeholder error
\* otherwise.
C19_MissingDescriptionFailsUnlessUnknown ==
    (tPc = "done" /\ LacksDescription(tPattern))
        => /\ ~tResult.ok
           /\ tResult.error = IF UnknownReferences(tPattern) = {}
                              THEN "missing_description"
                              ELSE "unknown_placeholder"

C19_Witness ==
    /\ tPc = "done"
    /\ LacksDescription(tPattern)
    /\ \E ij \in References(tPattern) : ReferencedName(tPattern, ij) = N_tag
    /\ \E k \in 1..Len(tPattern) : tPattern[k] = "_"
    /\ UnknownReferences(tPattern) = {}
    /\ ~tResult.ok
    /\ tResult.error = "missing_description"

\* C20: every template that references a placeholder outside the recognised
\* set is rejected with the unknown-placeholder error, which names the first
\* such placeholder of the template; no matcher is produced.
C20_UnknownPlaceholderFails ==
    (tPc = "done" /\ UnknownReferences(tPattern) # {})
        => /\ ~tResult.ok
           /\ tResult.error = "unknown_placeholder"
           /\ \E ij \in UnknownReferences(tPattern) :
                  /\ \A other \in UnknownReferences(tPattern) : ij[1] <= other[1]
                  /\ tResult.name = ReferencedName(tPattern, ij)

C20_Witness ==
    /\ tPc = "done"
    /\ ~LacksDescription(tPattern)
    /\ \E ij \in References(tPattern) : ReferencedName(tPattern, ij) = N_tag
    /\ UnknownReferences(tPattern) # {}
    /\ ~tResult.ok
    /\ tResult.error = "unknown_placeholder"
    /\ tResult.name = <<"f", "o", "o">>

\* the number a two-character text of decimal digits stands for
TwoDigits(t) == 10 * DecimalCharValue(t[1]) + DecimalCharValue(t[2])

SixDecimalDigits(t) ==
    Len(t) = 6 /\ \A i \in 1..6 : IsDecimalChar(t[i])

ClaimedYear(yy) == IF yy >= 51 THEN 1900 + yy ELSE 2000 + yy

LongMonths == {1, 3, 5, 7, 8, 10, 12}

ValidCalendarDate(year, month, day) ==
    /\ month \in 1..12
    /\ day >= 1
    /\ day <= (CASE month \in LongMonths -> 31
                 [] month = 2 -> IF year % 4 = 0 /\ year # 1900 THEN 29 ELSE 28
                 [] OTHER -> 30)

\* C22: parse_date_mmddyy never raises; for six digits MMDDYY that name a valid
\* calendar date it returns that date in year 2000+yy when yy <= 50 and in
\* year 1900+yy when yy >= 51, and for every other string it returns None.
C22_ParseDatePivot ==
    mPc = "done" =>
        /\ ~mResult.raised
        /\ LET mm == TwoDigits(SubSeq(mText, 1, 2))
               dd == TwoDigits(SubSeq(mText, 3, 4))
               year == ClaimedYear(TwoDigits(SubSeq(mText, 5, 6)))
           IN IF SixDecimalDigits(mText) /\ ValidCalendarDate(year, mm, dd)
              THEN mResult.value = [year |-> year, month |-> mm, day |-> dd]
              ELSE mResult.value = None

CountIn(s, Test(_)) == Cardinality({i \in 1..Len(s) : Test(s[i])})

ChunksPartitionFiles ==
    /\ \A v, w \in DOMAIN chunks :
           v # w => Range(chunks[v]) \cap Range(chunks[w]) = {}
    /\ UNION {Range(chunks[w]) : w \in DOMAIN chunks} = Range(files)
    /\ \A w \in DOMAIN chunks :
           \A i, j \in 1..Len(chunks[w]) : i # j => chunks[w][i] # chunks[w][j]

ResultsFor(f) ==
    LET IsFor(r) == r.filename = f
        Sum[ws \in SUBSET Workers] ==
            IF ws = {} THEN 0
            ELSE LET w == CHOOSE x \in ws : TRUE
                 IN CountIn(wresults[w], IsFor) + Sum[ws \ {w}]
    IN Sum[Workers]

TimesProcessed(f) ==
    LET IsParse(c) == c.stage = "parse" IN CountIn(calls[f], IsParse)

\* C27: the workers' subsets are pairwise disjoint and cover the input files,
\* and when the run is over every input file has been processed exactly once
\* and has yielded exactly one result.
C27_EachFileProcessedOnce ==
    /\ mainPc \notin {"start", "no_files"} => ChunksPartitionFiles
    /\ RunOver => \A f \in Range(files) :
                      TimesProcessed(f) = 1 /\ ResultsFor(f) = 1

CountsSum(c) ==
    c.succeeded + Len(c.failed) + Len(c.skipped) + Len(c.duplicate)
        + Len(c.rate_limited)

\* a ParsedFilename as parse_filename builds it, with the date of birth kept
ParsedWithDob ==
    [last_name |-> "DOE", first_name |-> "JANE", middle_initial |-> NoneStr,
     dob |-> NoneStr, tag_code |-> "R", tag_full |-> "radiology",
     date |-> "2026-02-03", description |-> "CXR"]

\* every result _process_single_file can return, whatever the remote does
ReturnableResults ==
    {_FileResult(1, FALSE, "parse_failed", NoneStr, "skipped")}
    \cup {out.result : out \in
            {o \in {ProcessParsed(1, ParsedWithDob, rem, dry, dest) :
                      rem \in RemoteBehaviours, dry \in BOOLEAN,
                      dest \in BOOLEAN} : ~o.raised}}

\* C30: every result is counted in exactly one of the five counts, and in
\* every completed run the five printed counts sum to the printed Total, the
\* number of files found in the directory.
C30_CountsSumToTotal ==
    /\ \A r \in ReturnableResults : CountsSum(ClassifyOne(NoCounts, r)) = 1
    /\ mainPc = "done" =>
           /\ printed.uploaded + printed.failed + printed.skipped
                  + printed.duplicates + printed.rate_limited = printed.total
           /\ printed.total = Cardinality(DOMAIN kind)

C30_Witness ==
    /\ mainPc = "done"
    /\ num_workers = 2
    /\ printed.total = 3
    /\ printed.skipped = 3
    /\ Cardinality({r.reason : r \in ReturnableResults}) = 7

EntriesKept(cache, cacheNext) ==
    \A k \in DOMAIN cache : k \in DOMAIN cacheNext /\ cacheNext[k] = cache[k]

\* C28: under any interleaving, an entry of the patient cache or of the
\* documents cache is never replaced or removed once it is there: of two
\* concurrent fetches of the same key the first write wins.
C28_EntriesNeverReplaced ==
    [][/\ EntriesKept(_patient_cache, _patient_cache')
       /\ EntriesKept(_documents_cache, _documents_cache')]_vars

\* two overlapping fetches of the documents of patient 1 got different lists
\* and the cache holds the list of the one that wrote first
C28_Witness ==
    \E i, j \in 1..Len(cLog) :
        /\ i < j
        /\ cLog[i].op = "get_patient_documents" /\ cLog[i].arg = 1
        /\ cLog[j].op = "get_patient_documents" /\ cLog[j].arg = 1
        /\ cLog[i].requested /\ ~cLog[i].raised
        /\ cLog[j].requested /\ ~cLog[j].raised
        /\ cLog[j].since < i
        /\ cLog[i].run = cLog[j].run
        /\ cLog[i].result # cLog[j].result
        /\ _documents_cache[1] = cLog[i].result

\* C29: within one run no two uploads carry the same patient, date,
\* description and tag, and a file taken up after the successful upload of a
\* file with the same four values is classified Duplicate.
C29_NoTwoUploadsOfOneDocument ==
    \A i, j \in 1..Len(cLog) :
        (i < j /\ cLog[i].outcome = "uploaded" /\ cLog[i].file = cLog[j].file)
            => /\ cLog[j].outcome # "uploaded"
               /\ cLog[j].since >= i => cLog[j].outcome = "duplicate"

\* C25: the record parse_filename returns for a parsable file carries the date
\* of birth field, and the batch processor reads it and goes on to call
\* find_patient with it.
C25_DobCarriedToLookup ==
    \A f \in DOMAIN calls :
        (kind[f] = "parsable" /\ calls[f] # <<>>)
            => /\ HasAttr(parse_filename(kind[f]), "dob")
               /\ \E i \in 1..Len(calls[f]) : calls[f][i].stage = "find_patient"

ParseOver == fPc = "done"
FromValues == fValues # None
PatternParts == compile_pattern(fPattern).parts
Asks(name) == \E i \in 1..Len(PatternParts) :
                  /\ PatternParts[i].kind = "group"
                  /\ name \in Range(GroupsOf(PatternParts[i].name))

\* the ISO-8601 text of the date an MMDDYY text names
IsoOf(t) ==
    (IF TwoDigits(SubSeq(t, 5, 6)) <= 50 THEN <<"2", "0">> ELSE <<"1", "9">>)
        \o SubSeq(t, 5, 6) \o <<"-">> \o SubSeq(t, 1, 2) \o <<"-">>
        \o SubSeq(t, 3, 4)

\* valid field values: names (a composite name written last,first[,middle]),
\* a tag code of the tag map, a date, a non-empty description; middle initial
\* and date of birth are optional
NamesDate(t) ==
    ValidCalendarDate(ClaimedYear(TwoDigits(SubSeq(t, 5, 6))),
                      TwoDigits(SubSeq(t, 1, 2)), TwoDigits(SubSeq(t, 3, 4)))

ValidValues ==
    /\ fValues.last_name.present /\ fValues.first_name.present
    /\ fValues.middle_separator = <<",">>
    /\ fValues.tag.present /\ HasTag(fMetatags, fValues.tag.text)
    /\ fValues.date.present /\ NamesDate(fValues.date.text)
    /\ fValues.dob.present => NamesDate(fValues.dob.text)
    /\ fValues.description.present /\ fValues.description.text # <<>>

\* C21: the file name written from a template that compiles and valid field
\* values parses, with the same pattern, to a record with the original
\* last_name, first_name, middle_initial, tag_code and description and with
\* date and dob in ISO-8601 form.
C21_RoundTrip ==
    (ParseOver /\ FromValues /\ ValidValues) =>
        /\ ~fResult.raised
        /\ fResult.value # None
        /\ fResult.value.last_name = fValues.last_name.text
        /\ fResult.value.first_name = fValues.first_name.text
        /\ Asks(N_middle_initial) =>
               fResult.value.middle_initial = fValues.middle_initial
        /\ fResult.value.tag_code = fValues.tag.text
        /\ fResult.value.description = fValues.description.text
        /\ fResult.value.date = IsoOf(fValues.date.text)
        /\ (Asks(N_dob) /\ fValues.dob.present) =>
               /\ HasAttr(fResult.value, "dob")
               /\ fResult.value.dob = Text(IsoOf(fValues.dob.text))

IsPrefixOf(a, b) == Len(a) <= Len(b) /\ SubSeq(b, 1, Len(a)) = a

HasShorterPrefixCode(code) ==
    \E i \in 1..Len(fMetatags) :
        fMetatags[i].code # code /\ IsPrefixOf(fMetatags[i].code, code)

\* C23: the tag alternation is in descending code length, and a file name
\* whose tag field is a code that has a shorter code of the map as a prefix
\* parses with tag_code equal to the longer code.
C23_LongerTagCodeWins ==
    /\ fPc # "idle" =>
           \A i, j \in 1..Len(tag_keys(fMetatags)) :
               i < j => Len(tag_keys(fMetatags)[i]) >= Len(tag_keys(fMetatags)[j])
    /\ (ParseOver /\ FromValues /\ ValidValues
            /\ HasShorterPrefixCode(fValues.tag.text)) =>
           /\ ~fResult.raised
           /\ fResult.value # None
           /\ fResult.value.tag_code = fValues.tag.text

\* the tag stands right before the description, the shorter code comes first
\* in the tag map, and the longer code is the one parsed
C23_Witness ==
    /\ ParseOver /\ FromValues /\ ValidValues
    /\ fMetatags[1].code = <<"H">>
    /\ fValues.tag = Text(<<"H", "P">>)
    /\ \E i \in 1..(Len(PatternParts) - 1) :
           /\ PatternParts[i].kind = "group" /\ PatternParts[i].name = N_tag
           /\ PatternParts[i + 1].kind = "group"
           /\ PatternParts[i + 1].name = N_description
    /\ ~fResult.raised /\ fResult.value # None
    /\ fResult.value.tag_code = <<"H", "P">>
    /\ fResult.value.description = <<"C", "X", "R">>

WrappedNames ==
    {PatternParts[i].name : i \in {k \in 1..Len(PatternParts) :
        PatternParts[k].kind = "group" /\ PatternParts[k].optional}}

\* the values that are there are valid ones
PresentValuesValid ==
    /\ fValues.tag.present => HasTag(fMetatags, fValues.tag.text)
    /\ fValues.date.present => NamesDate(fValues.date.text)
    /\ fValues.dob.present => NamesDate(fValues.dob.text)
    /\ fValues.description.present => fValues.description.text # <<>>

\* the record holds None for the field of the placeholder
FieldIsNone(record, name) ==
    CASE name = N_dob -> HasAttr(record, "dob") /\ record.dob = NoText
      [] name = N_middle_initial -> record.middle_initial = NoText
      [] OTHER -> FALSE

\* C24: with a placeholder in one pair of parentheses in the template, the
\* file name written with the parenthesised value and the one written without
\* parentheses and value both parse to a record, and the record of the second
\* holds None for the field.
C24_OptionalGroup ==
    (ParseOver /\ FromValues /\ PresentValuesValid /\ WrappedNames # {}) =>
        /\ ~fResult.raised
        /\ fResult.value # None
        /\ \A name \in WrappedNames :
               ~ValueOf(name, fValues).present =>
                   FieldIsNone(fResult.value, name)

IsIsoDate(t) ==
    /\ Len(t) = 10 /\ t[5] = "-" /\ t[8] = "-"
    /\ \A i \in {1, 2, 3, 4, 6, 7, 9, 10} : IsDigit(t[i])
    /\ ValidCalendarDate(
           1000 * DigitValue(t[1]) + 100 * DigitValue(t[2])
               + TwoDigits(SubSeq(t, 3, 4)),
           TwoDigits(SubSeq(t, 6, 7)), TwoDigits(SubSeq(t, 9, 10)))

Validated(record) ==
    /\ record.last_name # <<>> /\ strip(record.last_name) = record.last_name
    /\ record.first_name # <<>> /\ strip(record.first_name) = record.first_name
    /\ HasTag(fMetatags, record.tag_code)
    /\ record.tag_full = TagFull(fMetatags, record.tag_code)
    /\ IsIsoDate(record.date)
    /\ record.description # <<>>

\* C26: parse_filename never raises; it returns None or a record with
\* non-empty trimmed last_name and first_name, a tag_code of the tag map with
\* its category as tag_full, a valid ISO-8601 date and a non-empty description.
C26_NoneOrValidated ==
    ParseOver =>
        /\ ~fResult.raised
        /\ fResult.value # None => Validated(fResult.value)

\* a 429 whose Retry-After header is there and is no number
UnparsableRetryAfter(resp) ==
    /\ resp.status = 429
    /\ resp.retry_after.present
    /\ ~float(resp.retry_after.text).ok

\* the exponential backoff of attempt k plus jitter, in milliseconds
IsBackoffWait(ms, k) ==
    LET floor == Min(BACKOFF_BASE * Pow2(k), BACKOFF_MAX) * 1000 IN
    ms >= floor /\ ms < floor + 1000

\* C32: a 429 whose Retry-After header is present and not a number is handled
\* as one without header: before the last attempt the call sleeps the
\* exponential backoff (clamped, plus jitter) and retries, on the last attempt
\* it raises a RateLimitError that is not flagged as the application limit; no
\* error other than RateLimitError (and the transport error of the request
\* itself) leaves _request_with_retry.
C32_UnparsableRetryAfterIsBackoff ==
    /\ rError # None => rError.type \in {"RateLimitError", "ConnectionError"}
    /\ \A i \in 1..Len(rResponses) :
           UnparsableRetryAfter(rResponses[i]) =>
               IF i <= MAX_RETRIES
               THEN /\ i = Len(rResponses) /\ Len(rSleeps) < i =>
                           rPc = "sleep" /\ IsBackoffWait(rWait, i - 1)
                    /\ i <= Len(rSleeps) => IsBackoffWait(rSleeps[i], i - 1)
               ELSE /\ rPc = "raised"
                    /\ rError.type = "RateLimitError"
                    /\ ~rError.is_app_limit

Throttled(i) == rResponses[i].status = 429
ThrottledBefore(i) == Cardinality({j \in 1..(i - 1) : Throttled(j)})

\* C35: a response that is not a 429, on whichever of the up to four attempts
\* it arrives, is returned and no error is raised, whatever Retry-After values
\* the 429 responses before it carried, and the sleeps made are as many as
\* those 429 responses; a RateLimitError is raised only after the 429 of the
\* fourth attempt, so no Retry-After value ends the call on an earlier attempt.
C35_LateSuccessReturned ==
    /\ \A i \in 1..Len(rResponses) :
           ~Throttled(i) =>
               /\ i <= MAX_RETRIES + 1
               /\ rPc = "returned" /\ rReturned = rResponses[i]
               /\ rError = None
               /\ Len(rSleeps) = ThrottledBefore(i)
    /\ (rError # None /\ rError.type = "RateLimitError") =>
           /\ Len(rResponses) = MAX_RETRIES + 1
           /\ \A i \in 1..Len(rResponses) : Throttled(i)

\* a 200 on the fourth attempt after three 429 responses with Retry-After 61
C35_Witness ==
    /\ rPc = "returned" /\ rError = None
    /\ Len(rResponses) = MAX_RETRIES + 1
    /\ \A i \in 1..MAX_RETRIES :
           /\ Throttled(i)
           /\ rResponses[i].retry_after = Header(<<"6", "1">>)
    /\ rReturned = Response(200, NoHeader)
    /\ Len(rSleeps) = MAX_RETRIES

\* the ended calls of find_patient with the arguments of q
CallsFor(q) == {i \in LookupCalls : SameArguments(cLog[i].arg, q)}

\* C34: a call of find_patient that fails with a RateLimitError or an HTTP or
\* transport error leaves the patient cache unchanged, so that a later call
\* with the same key sends a new request; a NotFound or MultipleMatches result
\* is cached like a Found one and returned to later calls without a request.
C34_OnlyResultsAreCached ==
    /\ \A q \in CacheQueries :
           (\A i \in CallsFor(q) : cLog[i].raised) =>
               cache_key(q) \notin DOMAIN _patient_cache
    /\ \A j \in LookupCalls :
           ReturnedBefore(j) = {} => cLog[j].requested
    /\ \A j \in LookupCalls :
           ReturnedBefore(j) # {} =>
               LET first == cLog[Least(ReturnedBefore(j))] IN
               /\ ~cLog[j].requested /\ ~cLog[j].raised
               /\ cLog[j].result.status = first.result.status
               /\ _patient_cache[cache_key(cLog[j].arg)] = first.result

\* a call that failed, the same patient asked for again and answered by the
\* server with several matches, and asked for a third time and answered from
\* the cache with those matches
C34_Witness ==
    /\ Len(cLog) = 3
    /\ \A i \in 1..3 : cLog[i].arg = Query(<<"A">>, <<"B">>, Text(<<"M">>), NoText)
    /\ cLog[1].raised /\ cLog[1].requested
    /\ cLog[2].since = 1 /\ cLog[2].requested /\ ~cLog[2].raised
    /\ cLog[2].result.status = "multiple_matches"
    /\ cLog[3].since = 2 /\ ~cLog[3].requested /\ ~cLog[3].raised
    /\ cLog[3].result = cLog[2].result

\* the documents of every page the server holds for the patient
DocumentsOf(patient_id) ==
    UNION {Range(gServer[patient_id][k]) : k \in 1..Len(gServer[patient_id])}

IsCompleteList(documents, patient_id) ==
    /\ Range(documents) = DocumentsOf(patient_id)
    /\ Len(documents) = Cardinality(DocumentsOf(patient_id))

DocumentCalls(patient_id) ==
    {i \in 1..Len(cLog) :
        cLog[i].op = "get_patient_documents" /\ cLog[i].arg = patient_id}

\* C33: the documents cache holds complete lists only: an entry is there only
\* after a call fetched every page of the patient, and a call that failed on a
\* page wrote no entry, its partial list being dropped.
C33_OnlyCompleteListsCached ==
    /\ \A p \in DOMAIN _documents_cache :
           /\ IsCompleteList(_documents_cache[p], p)
           /\ \E i \in DocumentCalls(p) :
                  /\ cLog[i].requested /\ ~cLog[i].raised
                  /\ cLog[i].result = _documents_cache[p]
    /\ \A p \in PatientIds :
           (\A i \in DocumentCalls(p) : cLog[i].raised) =>
               p \notin DOMAIN _documents_cache
    /\ \A i \in 1..Len(cLog) :
           (cLog[i].op = "get_patient_documents" /\ ~cLog[i].raised) =>
               IsCompleteList(cLog[i].result, cLog[i].arg)

\* one caller failed on the second page of patient 1 and its one-document list
\* is in no cache, while another fetched both pages of patient 2 and stored them
C33_Witness ==
    /\ \E c \in Callers :
           /\ gCalls[c].pc = "raised" /\ gCalls[c].patient_id = 1
           /\ Len(gCalls[c].documents) = 1
    /\ Len(gServer[1]) = 2 /\ Len(gServer[2]) = 2
    /\ 1 \notin DOMAIN _documents_cache
    /\ 2 \in DOMAIN _documents_cache
    /\ Len(_documents_cache[2]) = 2

Aggregating == mainPc \in {"aggregate", "report", "done"}
NothingReported ==
    /\ succeeded = 0 /\ failed_files = <<>> /\ skipped_files = <<>>
    /\ duplicate_files = <<>> /\ rate_limited_files = <<>>
    /\ printed = NoSummary

RECURSIVE TotalResults(_)
TotalResults(W) ==
    IF W = {} THEN 0
    ELSE LET w == CHOOSE x \in W : TRUE
         IN Len(wresults[w]) + TotalResults(W \ {w})

\* C31: with more than one worker the classification and the report start
\* only after every worker has returned the complete result list of its
\* subset, and all_results never holds a result of a worker that has not
\* returned.
C31_AggregateAfterAllWorkers ==
    num_workers > 1 =>
        /\ Aggregating =>
               \A w \in Submitted :
                   /\ wpc[w] = "returned"
                   /\ Len(wresults[w]) = Len(wfiles[w])
                   /\ w \in collected
        /\ ~Aggregating => NothingReported
        /\ \A w \in collected : Finished(w)
        /\ Len(all_results) =
               TotalResults({w \in collected : wpc[w] = "returned"})
        /\ \A i \in 1..Len(all_results) :
               \E w \in collected :
                   /\ wpc[w] = "returned"
                   /\ \E j \in 1..Len(wresults[w]) : wresults[w][j] = all_results[i]

\* three workers with one file each have all returned and the summary of the
\* three results is printed
C31_Witness ==
    /\ num_workers = 3 /\ Len(files) = 3
    /\ mainPc = "done" /\ printed.printed /\ printed.total = 3
    /\ \A w \in 0..2 : wpc[w] = "returned" /\ Len(wresults[w]) = 1
    /\ Len(all_results) = 3

Touched(f) == calls[f] # <<>>

\* C36: a worker takes the files of its subset one at a time in the assigned,
\* sorted order, and its result list is in that order: the result at position
\* j is the one of the j-th file assigned to the worker.
C36_ResultsInAssignedOrder ==
    \A w \in Workers :
        /\ \A j \in 1..(Len(wfiles[w]) - 1) : wfiles[w][j] < wfiles[w][j + 1]
        /\ Len(wresults[w]) = widx[w] /\ widx[w] <= Len(wfiles[w])
        /\ \A j \in 1..Len(wresults[w]) :
               wresults[w][j].filename = wfiles[w][j]
        /\ \A j \in 1..Len(wfiles[w]) :
               /\ j <= widx[w] => Touched(wfiles[w][j])
               /\ Touched(wfiles[w][j]) => j <= widx[w] + 1

\* of two workers the first was given the files 1 and 3 and holds their two
\* results in that order
C36_Witness ==
    /\ num_workers = 2 /\ Len(files) = 3
    /\ wfiles[0] = <<1, 3>>
    /\ wpc[0] = "returned"
    /\ Len(wresults[0]) = 2
    /\ wresults[0][1].filename = 1 /\ wresults[0][2].filename = 3

\* the files of worker w whose processing has begun
Begun(w) == Cardinality({j \in 1..Len(wfiles[w]) : Touched(wfiles[w][j])})

OtherValuesValid ==
    /\ fValues.last_name.present /\ fValues.first_name.present
    /\ fValues.tag.present /\ HasTag(fMetatags, fValues.tag.text)
    /\ fValues.date.present
    /\ fValues.description.present /\ fValues.description.text # <<>>

InvalidDobWritten ==
    Asks(N_dob) /\ fValues.dob.present /\ ~NamesDate(fValues.dob.text)
InvalidDateWritten == ~NamesDate(fValues.date.text)

\* C39: parse_filename returns None for a file name whose dob is six digits
\* that name no calendar date (month 13, Feb 30), as it does for a document
\* date of that kind.
C39_InvalidDobGivesNone ==
    (ParseOver /\ FromValues /\ OtherValuesValid
        /\ (InvalidDobWritten \/ InvalidDateWritten)) =>
        ~fResult.raised /\ fResult.value = None

\* the template holds {name}, and the name part of the file name was written
\* as LAST,FIRST M
NameWithSpacedInitial ==
    /\ \E i \in 1..Len(PatternParts) :
           PatternParts[i].kind = "group" /\ PatternParts[i].name = N_name
    /\ fValues.middle_initial.present
    /\ fValues.middle_separator = <<" ">>

\* C40: with a template that uses {name}, the default one or one with {name}
\* elsewhere, a file name whose name part is 'LAST,FIRST M' parses to
\* last_name LAST, first_name FIRST and middle_initial M.
C40_SpacedMiddleInitial ==
    (ParseOver /\ FromValues /\ OtherValuesValid /\ NamesDate(fValues.date.text)
        /\ NameWithSpacedInitial) =>
        /\ ~fResult.raised
        /\ fResult.value # None
        /\ fResult.value.last_name = fValues.last_name.text
        /\ fResult.value.first_name = fValues.first_name.text
        /\ fResult.value.middle_initial = fValues.middle_initial

\* the run has printed its summary and every input file has a result that the
\* classification loop has put into one of the categories
EveryFileClassified ==
    /\ mainPc \in {"report", "done"}
    /\ \A f \in Range(files) :
         \E i \in 1..Len(all_results) : all_results[i].filename = f
RunReported == mainPc = "done" /\ printed.printed /\ EveryFileClassified

\* C37: with threads scheduled fairly, sleeps that end and requests that
\* return, every batch run over a directory that holds files ends with every
\* input file classified and the summary printed
C37_EveryRunClassifiesAndReports ==
    (mainPc = "running") ~> RunReported

====
